---- MODULE Spec2Model ----
(***************************************************************************)
(* A model of the phil calculator core (src/src/calc/core.py): the input   *)
(* validator, the notation normalizer, the magnitude guardrails and the    *)
(* guarded evaluator with its session bindings.                            *)
(*                                                                         *)
(* A text is a sequence of characters; a character is a one-character      *)
(* string (U+2212, the Unicode minus sign, is written "U2212").            *)
(***************************************************************************)
EXTENDS Integers, Sequences, FiniteSets, TLC

VARIABLES
    expression,       \* the text handed to the operation under way
    relaxed,          \* the relaxed flag of the call
    simplify_output,  \* the simplify_output flag of the call
    pc,               \* position of the call under way
    normalized,       \* the normalizer's output for this call
    error,            \* the message of the exception raised, or NoError
    result,           \* the value returned, or NoValue
    session_locals,   \* the session bindings: name -> value
    stages,           \* the stages this call has performed, in order
    calls,            \* number of calls started in this session
    stripped,         \* normalize_expression: the text after line 341
    latexed,          \* normalize_expression: the text after line 345
    shorthand,        \* normalize_expression: the text after line 350
    staged,           \* normalize_expression: the text after line 367, or
                      \* the text of line 350 when the call returns at 356
    previous,         \* the normalizer's output before the call under way
    match_name,       \* evaluate: match.group(1), <<>> when there is no match
    guarded_expr,     \* the text handed to _parse_with_guardrails
    parsed_safe,      \* _parse_with_guardrails: parsed_safe
    parsed_expr,      \* what _parse_with_guardrails returns
    returned,         \* the value the last call that returned has returned
    body,             \* the ODE alias: the text after the `ode ` prefix
    pieces,           \* the ODE alias: the clauses of the body
    eq_value,         \* the ODE alias: the value of the equation clause
    dependent_fn,     \* the ODE alias: dep, the function solved for
    ics,              \* the ODE alias: the initial conditions, lhs -> rhs
    fn_calls,         \* the calls of evaluate made for the clauses, in order
    solver_calls,     \* the calls of dsolve, in order
    argv,             \* run: the command-line arguments
    line,             \* the REPL: the line read last, stripped
    prompts,          \* the REPL: the number of lines read
    printed,          \* what the last line printed on the output, or NoValue
    exit_code,        \* what run returned, None while it runs
    tutorial_state    \* the REPL: tutorial_state, None before the REPL starts

vars == <<expression, relaxed, simplify_output, pc, normalized, error,
          result, session_locals, stages, calls, stripped, latexed, shorthand,
          staged, previous, match_name, guarded_expr, parsed_safe,
          parsed_expr, returned, body, pieces, eq_value, dependent_fn, ics,
          fn_calls, solver_calls, argv, line, prompts, printed, exit_code,
          tutorial_state>>

\* the locals of normalize_expression
normalizer_vars == <<stripped, latexed, shorthand, staged>>

\* the locals of evaluate and _parse_with_guardrails
evaluate_vars == <<match_name, guarded_expr, parsed_safe, parsed_expr>>

\* the locals of the ODE alias
solve_vars == <<eq_value, dependent_fn, ics, fn_calls, solver_calls>>
alias_vars == <<body, pieces, solve_vars>>

\* the state of the command line, which the calculator core never touches
repl_vars == <<argv, line, prompts, printed, exit_code, tutorial_state>>
cli_vars == <<alias_vars, repl_vars>>

NoError == "none"
NoValue == [k |-> "NoValue"]

(***************************************************************************)
(* Python values: None, int, dict                                          *)
(***************************************************************************)
None == [k |-> "None"]
PyInt(v) == [k |-> "int", v |-> v]
Dict(items) == [k |-> "dict", items |-> items]
EmptyItems == [n \in {} |-> NoValue]
Keys(S) == IF S.k = "dict" THEN DOMAIN S.items ELSE {}

\* dict[key] = value
Bindings(S, key, value) ==
    Dict([n \in Keys(S) \cup {key} |-> IF n = key THEN value ELSE S.items[n]])

\* the command line at rest
AliasIdle ==
    /\ eq_value = NoValue
    /\ dependent_fn = None
    /\ ics = EmptyItems
    /\ fn_calls = <<>>
    /\ solver_calls = <<>>

ReplIdle ==
    /\ argv = <<>>
    /\ line = <<>>
    /\ prompts = 0
    /\ printed = NoValue
    /\ exit_code = None
    /\ tutorial_state = None

CliIdle ==
    /\ body = <<>>
    /\ pieces = <<>>
    /\ AliasIdle
    /\ ReplIdle

ANS == <<"a", "n", "s">>

Abs(n) == IF n < 0 THEN 0 - n ELSE n

(***************************************************************************)
(* Characters and character classes (Python's str and re semantics on the  *)
(* characters the model uses).                                             *)
(***************************************************************************)
Lower == {"a", "b", "c", "d", "e", "f", "g", "h", "i", "j", "k", "l", "m",
          "n", "o", "p", "q", "r", "s", "t", "u", "v", "w", "x", "y", "z"}
Upper == {"A", "B", "C", "D", "E", "F", "G", "H", "I", "J", "K", "L", "M",
          "N", "O", "P", "Q", "R", "S", "T", "U", "V", "W", "X", "Y", "Z"}
Letter == Lower \cup Upper
Digit == {"0", "1", "2", "3", "4", "5", "6", "7", "8", "9"}
WordChar == Letter \cup Digit \cup {"_"}
Space == {" ", "\t", "\n", "\r", "\f"}
BS == "\\"
UMinus == "U2212"

At(s, i) == IF 1 <= i /\ i <= Len(s) THEN s[i] ELSE ""

\* the element of a one-element set: { F(v) : v \in {e} } is F applied to the
\* value of e, which is how a statement uses the value of the one before it
Only(S) == CHOOSE v \in S : TRUE

\* s[i..j-1], the slice s[i-1:j-1] of Python
Slice(s, i, j) == SubSeq(s, i, j - 1)

\* str.startswith at an offset: p occurs in s at index i
PrefixAt(s, i, p) ==
    /\ i >= 1
    /\ i + Len(p) - 1 <= Len(s)
    /\ \A k \in 1..Len(p) : s[i + k - 1] = p[k]

StartsWith(s, p) == PrefixAt(s, 1, p)
EndsWith(s, p) == Len(p) <= Len(s) /\ PrefixAt(s, Len(s) - Len(p) + 1, p)

\* greedy \s*: the first index at or after i that holds no whitespace
SkipWs(s, i) ==
    CHOOSE j \in i..(Len(s) + 1) :
        /\ \A k \in i..(j - 1) : s[k] \in Space
        /\ At(s, j) \notin Space

\* str.strip()
Strip(s) ==
    IF \A k \in 1..Len(s) : s[k] \in Space THEN <<>>
    ELSE LET a == SkipWs(s, 1)
             b == CHOOSE j \in 1..Len(s) :
                      /\ s[j] \notin Space
                      /\ \A k \in (j + 1)..Len(s) : s[k] \in Space
         IN  SubSeq(s, a, b)

(***************************************************************************)
(* Regular-expression pieces.  A position is an index into the text; 0 is  *)
(* the failed match, and every piece maps 0 to 0, so that a pattern is the *)
(* chain of its pieces.                                                    *)
(***************************************************************************)
\* a literal
Lit(s, i, p) == IF i > 0 /\ PrefixAt(s, i, p) THEN i + Len(p) ELSE 0

\* \s* (greedy)
Ws(s, i) == IF i > 0 THEN SkipWs(s, i) ELSE 0

\* one character of the class cls
One(s, i, cls) == IF i > 0 /\ At(s, i) \in cls THEN i + 1 ELSE 0

\* [A-Za-z][A-Za-z0-9_]* (greedy: no shorter identifier lets a pattern of
\* this module go on, since what follows it is never a word character)
Ident(s, i) ==
    IF i = 0 \/ At(s, i) \notin Letter THEN 0
    ELSE CHOOSE j \in (i + 1)..(Len(s) + 1) :
             /\ \A k \in (i + 1)..(j - 1) : s[k] \in WordChar
             /\ At(s, j) \notin WordChar

\* \b at the gap in front of index i
WordBoundary(s, i) == (At(s, i - 1) \in WordChar) # (At(s, i) \in WordChar)

\* \b as a piece
Bnd(s, i) == IF i > 0 /\ WordBoundary(s, i) THEN i ELSE 0

\* a maximal run of characters outside cls, at least one: [^...]+
RunNot(s, i, cls) ==
    IF i = 0 \/ i > Len(s) \/ At(s, i) \in cls THEN 0
    ELSE CHOOSE j \in (i + 1)..(Len(s) + 1) :
             /\ \A k \in (i + 1)..(j - 1) : s[k] \notin cls
             /\ (j = Len(s) + 1 \/ s[j] \in cls)

\* a maximal run of characters outside cls, possibly empty: [^...]*
RunNot0(s, i, cls) ==
    IF i = 0 THEN 0
    ELSE CHOOSE j \in i..(Len(s) + 1) :
             /\ \A k \in i..(j - 1) : s[k] \notin cls
             /\ (j = Len(s) + 1 \/ s[j] \in cls)

NoMatch == [e |-> 0, r |-> <<>>]

\* re.sub: m[i] is the match that starts at index i, [e |-> the index after
\* it, r |-> its replacement], or NoMatch; matches are taken leftmost first
\* and do not overlap
\* the first index from i on that starts a match, or 0
FirstMatch(s, i, m) ==
    IF \A j \in i..Len(s) : m[j].e = 0 THEN 0
    ELSE CHOOSE j \in i..Len(s) : m[j].e > 0 /\ \A k \in i..(j - 1) : m[k].e = 0

RECURSIVE SubFrom(_, _, _)
RECURSIVE SubAt(_, _, _, _)
\* the text from index i on, with the match at j (0: none) and those after it
\* replaced
SubAt(s, i, m, j) ==
    IF j = 0 THEN SubSeq(s, i, Len(s))
    ELSE SubSeq(s, i, j - 1) \o m[j].r \o SubFrom(s, m[j].e, m)

SubFrom(s, i, m) == SubAt(s, i, m, FirstMatch(s, i, m))

\* re.search: some index starts a match
Search(s, m) == \E i \in 1..Len(s) : m[i].e > 0

\* str.replace(old, new) for a one-character old
ReplaceChar(s, old, new) == [i \in 1..Len(s) |-> IF s[i] = old THEN new ELSE s[i]]

\* str.replace(old, new)
ReplaceStr(s, old, new) ==
    IF s = <<>> THEN <<>>
    ELSE SubFrom(s, 1, [i \in 1..Len(s) |->
             IF PrefixAt(s, i, old) THEN [e |-> i + Len(old), r |-> new] ELSE NoMatch])

DigitVal(c) ==
    CASE c = "0" -> 0 [] c = "1" -> 1 [] c = "2" -> 2 [] c = "3" -> 3
      [] c = "4" -> 4 [] c = "5" -> 5 [] c = "6" -> 6 [] c = "7" -> 7
      [] c = "8" -> 8 [] c = "9" -> 9

(***************************************************************************)
(* Notation Normalizer                                                     *)
(***************************************************************************)
Mut_dependent_expr_always_yf(dep, var) ==
    <<"y", "f", "(">> \o var \o <<")">>

_dependent_expr(dep, var) ==
    IF dep = <<"y">> THEN <<"y", "f", "(">> \o var \o <<")">>
    ELSE IF dep = <<"f">> THEN <<"f", "(">> \o var \o <<")">>
    ELSE dep

\* the quote rule without the strip() of line 216
Mut_StripOneWrapper_untrimmed(out) ==
    IF Len(out) >= 2 /\ out[1] = out[Len(out)] /\ out[1] \in {"'", "\""}
    THEN Slice(out, 2, Len(out))
    ELSE IF StartsWith(out, <<"$", "$">>) /\ EndsWith(out, <<"$", "$">>) /\ Len(out) >= 4
    THEN Strip(Slice(out, 3, Len(out) - 1))
    ELSE IF StartsWith(out, <<"$">>) /\ EndsWith(out, <<"$">>) /\ Len(out) >= 2
    THEN Strip(Slice(out, 2, Len(out)))
    ELSE IF StartsWith(out, <<BS, "(">>) /\ EndsWith(out, <<BS, ")">>)
    THEN Strip(Slice(out, 3, Len(out) - 1))
    ELSE IF StartsWith(out, <<BS, "[">>) /\ EndsWith(out, <<BS, "]">>)
    THEN Strip(Slice(out, 3, Len(out) - 1))
    ELSE out

\* one pass of the loop body: the text after the first wrapper rule that
\* applies, or the text itself when none does
StripOneWrapper(out) ==
    IF Len(out) >= 2 /\ out[1] = out[Len(out)] /\ out[1] \in {"'", "\""}
    THEN Strip(Slice(out, 2, Len(out)))
    ELSE IF StartsWith(out, <<"$", "$">>) /\ EndsWith(out, <<"$", "$">>) /\ Len(out) >= 4
    THEN Strip(Slice(out, 3, Len(out) - 1))
    ELSE IF StartsWith(out, <<"$">>) /\ EndsWith(out, <<"$">>) /\ Len(out) >= 2
    THEN Strip(Slice(out, 2, Len(out)))
    ELSE IF StartsWith(out, <<BS, "(">>) /\ EndsWith(out, <<BS, ")">>)
    THEN Strip(Slice(out, 3, Len(out) - 1))
    ELSE IF StartsWith(out, <<BS, "[">>) /\ EndsWith(out, <<BS, "]">>)
    THEN Strip(Slice(out, 3, Len(out) - 1))
    ELSE out

RECURSIVE StripWrapperLoop(_)
StripWrapperLoop(out) ==
    IF StripOneWrapper(out) = out THEN out
    ELSE StripWrapperLoop(StripOneWrapper(out))

_strip_outer_wrappers(text) == StripWrapperLoop(Strip(text))

RECURSIVE NthDerivativeFrom(_, _, _)
NthDerivativeFrom(out, var, order) ==
    IF order = 0 THEN out
    ELSE NthDerivativeFrom(<<"d", "(">> \o out \o <<",", " ">> \o var \o <<")">>,
                           var, order - 1)

_nth_derivative(dep, var, order) ==
    NthDerivativeFrom(_dependent_expr(dep, var), var, order)

FRAC == <<BS, "f", "r", "a", "c">>
Braces == {"{", "}"}

\* \\frac\s*\{\s*d\^([2-9])\s*(ident)\s*\}\s*\{\s*d\s*(ident)\s*\^\s*\1\s*\}
LATEX_HIGHER_LEIBNIZ_PATTERN(s, i) ==
    LET p1 == Ws(s, Lit(s, Ws(s, Lit(s, i, FRAC)), <<"{">>))
        p2 == Lit(s, p1, <<"d", "^">>)
        p3 == One(s, p2, {"2", "3", "4", "5", "6", "7", "8", "9"})
        g2 == Ws(s, p3)
        p4 == Ident(s, g2)
        p5 == Ws(s, Lit(s, Ws(s, Lit(s, Ws(s, p4), <<"}">>)), <<"{">>))
        g3 == Ws(s, Lit(s, p5, <<"d">>))
        p6 == Ident(s, g3)
        p7 == Ws(s, Lit(s, Ws(s, p6), <<"^">>))
        p8 == Lit(s, p7, <<At(s, p2)>>)
        p9 == Lit(s, Ws(s, p8), <<"}">>)
    IN  IF p9 = 0 THEN NoMatch
        ELSE [e |-> p9,
              r |-> _nth_derivative(Slice(s, g2, p4), Slice(s, g3, p6),
                                    DigitVal(s[p2]))]

\* \\frac\s*\{\s*d\s*(ident)\s*\}\s*\{\s*d\s*(ident)\s*\}
LATEX_LEIBNIZ_PATTERN(s, i) ==
    LET p1 == Ws(s, Lit(s, Ws(s, Lit(s, i, FRAC)), <<"{">>))
        g1 == Ws(s, Lit(s, p1, <<"d">>))
        p2 == Ident(s, g1)
        p3 == Ws(s, Lit(s, Ws(s, Lit(s, Ws(s, p2), <<"}">>)), <<"{">>))
        g2 == Ws(s, Lit(s, p3, <<"d">>))
        p4 == Ident(s, g2)
        p5 == Lit(s, Ws(s, p4), <<"}">>)
    IN  IF p5 = 0 THEN NoMatch
        ELSE [e |-> p5,
              r |-> <<"d">> \o Slice(s, g1, p2) \o <<"/", "d">> \o Slice(s, g2, p4)]

\* \\frac\s*\{([^{}]+)\}\s*\{([^{}]+)\}   ->   (\1)/(\2)
LATEX_FRAC_PATTERN(s, i) ==
    LET g1 == Lit(s, Ws(s, Lit(s, i, FRAC)), <<"{">>)
        p1 == RunNot(s, g1, Braces)
        g2 == Lit(s, Ws(s, Lit(s, p1, <<"}">>)), <<"{">>)
        p2 == RunNot(s, g2, Braces)
        p3 == Lit(s, p2, <<"}">>)
    IN  IF p3 = 0 THEN NoMatch
        ELSE [e |-> p3,
              r |-> <<"(">> \o Slice(s, g1, p1) \o <<")", "/", "(">>
                        \o Slice(s, g2, p2) \o <<")">>]

\* \\sqrt\s*\{([^{}]+)\}   ->   sqrt(\1)
LATEX_SQRT_PATTERN(s, i) ==
    LET g1 == Lit(s, Ws(s, Lit(s, i, <<BS, "s", "q", "r", "t">>)), <<"{">>)
        p1 == RunNot(s, g1, Braces)
        p2 == Lit(s, p1, <<"}">>)
    IN  IF p2 = 0 THEN NoMatch
        ELSE [e |-> p2,
              r |-> <<"s", "q", "r", "t", "(">> \o Slice(s, g1, p1) \o <<")">>]

LatexCommands ==
    { <<"s", "i", "n">>, <<"c", "o", "s">>, <<"t", "a", "n">>, <<"l", "n">>,
      <<"l", "o", "g">>, <<"e", "x", "p">> }

\* \\(sin|cos|tan|ln|log|exp)\b   ->   \1
LatexCommandPattern(s, i) ==
    IF \E w \in LatexCommands : Bnd(s, Lit(s, Lit(s, i, <<BS>>), w)) > 0
    THEN LET w == CHOOSE w \in LatexCommands : Bnd(s, Lit(s, Lit(s, i, <<BS>>), w)) > 0
         IN  [e |-> i + 1 + Len(w), r |-> w]
    ELSE NoMatch

\* \\pi\b   ->   pi
LatexPiPattern(s, i) ==
    IF Bnd(s, Lit(s, i, <<BS, "p", "i">>)) > 0
    THEN [e |-> i + 3, r |-> <<"p", "i">>]
    ELSE NoMatch

Matches(s, Pattern(_, _)) == [i \in 1..Len(s) |-> Pattern(s, i)]

Sub(s, Pattern(_, _)) ==
    IF s = <<>> THEN <<>> ELSE SubFrom(s, 1, Matches(s, Pattern))

RECURSIVE LatexFracLoop(_)
RECURSIVE LatexFracNext(_, _)
LatexFracNext(out, updated) ==
    IF updated = out THEN out ELSE LatexFracLoop(updated)

LatexFracLoop(out) == LatexFracNext(out, Sub(out, LATEX_FRAC_PATTERN))

\* the substitutions in the order of the code, the innermost first
_replace_latex_notation(text) ==
    Only({ ReplaceStr(t7, <<BS, "t", "i", "m", "e", "s">>, <<"*">>) :
      t7 \in { ReplaceStr(t6, <<BS, "c", "d", "o", "t">>, <<"*">>) :
      t6 \in { Sub(t5, LatexPiPattern) :
      t5 \in { Sub(t4, LatexCommandPattern) :
      t4 \in { Sub(t3, LATEX_SQRT_PATTERN) :
      t3 \in { LatexFracLoop(t2) :
      t2 \in { Sub(t1, LATEX_LEIBNIZ_PATTERN) :
      t1 \in { Sub(text, LATEX_HIGHER_LEIBNIZ_PATTERN) } } } } } } } })

Max(S) == CHOOSE x \in S : \A y \in S : y <= x
Min(S) == CHOOSE x \in S : \A y \in S : x <= y

Parens == {"(", ")"}

\* '{1,4} (greedy; what follows it in a pattern is never a prime mark)
Primes(s, i) ==
    IF i = 0 \/ At(s, i) # "'" THEN 0
    ELSE CHOOSE j \in (i + 1)..(i + 4) :
             /\ \A k \in i..(j - 1) : At(s, k) = "'"
             /\ (j = i + 4 \/ At(s, j) # "'")

\* \bln\s*\(   ->   log(
LnCallPattern(s, i) ==
    LET p == Lit(s, Ws(s, Lit(s, Bnd(s, i), <<"l", "n">>)), <<"(">>)
    IN  IF p = 0 THEN NoMatch ELSE [e |-> p, r |-> <<"l", "o", "g", "(">>]

TrigNames == { <<"s", "i", "n">>, <<"c", "o", "s">>, <<"t", "a", "n">> }

BareFuncEnd(s, i, w) == Bnd(s, One(s, Lit(s, Bnd(s, i), w), {"x", "y", "z", "t"}))

\* \b(sin|cos|tan)([xyzt])\b   ->   \1(\2)
BARE_FUNC_ARG_PATTERN(s, i) ==
    IF \E w \in TrigNames : BareFuncEnd(s, i, w) > 0
    THEN [e |-> i + 4, r |-> Slice(s, i, i + 3) \o <<"(", s[i + 3], ")">>]
    ELSE NoMatch

\* the text, and the (original, rewritten) pairs in the order of the matches
RECURSIVE BareFuncRewritesFrom(_, _)
RECURSIVE BareFuncRewritesAt(_, _)
BareFuncRewritesAt(s, j) ==
    IF j = 0 THEN <<>>
    ELSE <<<<Slice(s, j, j + 4), BARE_FUNC_ARG_PATTERN(s, j).r>>>>
             \o BareFuncRewritesFrom(s, j + 4)

BareFuncRewritesFrom(s, i) ==
    BareFuncRewritesAt(s, FirstMatch(s, i, Matches(s, BARE_FUNC_ARG_PATTERN)))

Mut_bare_function_always(text, rlx) ==
    [text |-> Sub(text, BARE_FUNC_ARG_PATTERN),
     rewrites |-> BareFuncRewritesFrom(text, 1)]

_normalize_bare_function_shorthand(text, rlx) ==
    IF ~rlx THEN [text |-> text, rewrites |-> <<>>]
    ELSE [text |-> Sub(text, BARE_FUNC_ARG_PATTERN),
          rewrites |-> BareFuncRewritesFrom(text, 1)]

\* \b(ident)\s*('{1,4})\s*\(\s*([^()]+?)\s*\)
PRIME_AT_POINT_PATTERN(s, i) ==
    LET p1 == Ident(s, Bnd(s, i))
        q1 == Ws(s, p1)
        q2 == Primes(s, q1)
        g3 == Lit(s, Ws(s, q2), <<"(">>)
        p3 == RunNot(s, g3, Parens)
        p4 == Lit(s, p3, <<")">>)
        derivative == _nth_derivative(Slice(s, i, p1), <<"x">>, q2 - q1)
        at == Strip(Slice(s, g3, p3))
    IN  IF p4 = 0 THEN NoMatch
        ELSE [e |-> p4,
              r |-> IF at = <<"x">> THEN derivative
                    ELSE derivative \o <<".", "s", "u", "b", "s", "(", "x", ",", " ">>
                             \o at \o <<")">>]

_replace_prime_at_point_notation(text) == Sub(text, PRIME_AT_POINT_PATTERN)

\* \b(ident)\s*('{1,4})
PRIME_PATTERN(s, i) ==
    LET p1 == Ident(s, Bnd(s, i))
        q1 == Ws(s, p1)
        q2 == Primes(s, q1)
    IN  IF q2 = 0 THEN NoMatch
        ELSE [e |-> q2, r |-> _nth_derivative(Slice(s, i, p1), <<"x">>, q2 - q1)]

_replace_prime_notation(text) == Sub(text, PRIME_PATTERN)

\* \by\s*\(   ->   yf(
YCallPattern(s, i) ==
    LET p == Lit(s, Ws(s, Lit(s, Bnd(s, i), <<"y">>)), <<"(">>)
    IN  IF p = 0 THEN NoMatch ELSE [e |-> p, r |-> <<"y", "f", "(">>]

\* "." of a pattern: any character but the newline
NotNewline(s, a, b) == \A k \in a..(b - 1) : s[k] # "\n"
AllWs(s, a, b) == \A k \in a..(b - 1) : s[k] \in Space

\* the ends m of a group (.+) that starts at a and is followed by \s*$
TailEnds(s, a) ==
    { m \in (a + 1)..(Len(s) + 1) : NotNewline(s, a, m) /\ AllWs(s, m, Len(s) + 1) }

\* \s*(.+?)\s*$ or \s*(.+)\s*$ from index p: the group's bounds [a, b), with
\* a = 0 when there is no match.  The leading \s* is greedy, so the group
\* starts as far right as a match allows.
TailGroupAt(s, a, ends, lazy) ==
    [a |-> a, b |-> IF lazy THEN Min(ends) ELSE Max(ends)]

TailGroupFrom(s, p, starts, lazy) ==
    IF p = 0 \/ starts = {} THEN [a |-> 0, b |-> 0]
    ELSE TailGroupAt(s, Max(starts), TailEnds(s, Max(starts)), lazy)

TailGroup(s, p, lazy) ==
    TailGroupFrom(s, p, { a \in p..Len(s) : AllWs(s, p, a) /\ TailEnds(s, a) # {} },
                  lazy)

\* (?<![A-Za-z_])dep(?![A-Za-z0-9_]|(?:\s*\())
BareDependentAt(rhs, i, dep) ==
    /\ PrefixAt(rhs, i, dep)
    /\ At(rhs, i - 1) \notin (Letter \cup {"_"})
    /\ At(rhs, i + Len(dep)) \notin WordChar
    /\ At(rhs, SkipWs(rhs, i + Len(dep))) # "("

\* str.isalnum() of one character
IsAlnum(c) == c \in (Letter \cup Digit)

Mut_replace_bare_dependent_never_mul(rhs, dep, dep_expr, add_implicit_mul) ==
    SubFrom(rhs, 1, [i \in 1..Len(rhs) |->
        IF BareDependentAt(rhs, i, dep)
        THEN [e |-> i + Len(dep), r |-> dep_expr]
        ELSE NoMatch])

_replace_bare_dependent(rhs, dep, dep_expr, add_implicit_mul) ==
    SubFrom(rhs, 1, [i \in 1..Len(rhs) |->
        IF BareDependentAt(rhs, i, dep)
        THEN [e |-> i + Len(dep),
              r |-> IF /\ add_implicit_mul
                       /\ i > 1
                       /\ (IsAlnum(rhs[i - 1]) \/ rhs[i - 1] = ")")
                    THEN <<"*">> \o dep_expr
                    ELSE dep_expr]
        ELSE NoMatch])

\* ^\s*d\s*(ident)\s*/\s*d\s*(ident)\s*=\s*(.+?)\s*$
\* [ok, dep, var, rhs]
OdeShortEqGroups(s, g1, p1, g2, p2, t) ==
    IF t.a = 0 THEN [ok |-> FALSE, dep |-> <<>>, var |-> <<>>, rhs |-> <<>>]
    ELSE [ok |-> TRUE, dep |-> Slice(s, g1, p1), var |-> Slice(s, g2, p2),
          rhs |-> Slice(s, t.a, t.b)]

OdeShortEqVar(s, g1, p1, g2) ==
    OdeShortEqGroups(s, g1, p1, g2, Ident(s, g2),
                     TailGroup(s, Lit(s, Ws(s, Ident(s, g2)), <<"=">>), TRUE))

OdeShortEqDep(s, g1, p1) ==
    OdeShortEqVar(s, g1, p1,
                  Ws(s, Lit(s, Ws(s, Lit(s, Ws(s, p1), <<"/">>)), <<"d">>)))

ODE_SHORT_EQ_PATTERN_match(s) ==
    OdeShortEqDep(s, Ws(s, Lit(s, Ws(s, 1), <<"d">>)),
                  Ident(s, Ws(s, Lit(s, Ws(s, 1), <<"d">>))))

\* ^\s*([A-Za-z][A-Za-z0-9_]*)\s*=\s*(.+)\s*$
\* [ok, name, rhs]
AssignmentGroups(s, g1, p1, t) ==
    IF t.a = 0 THEN [ok |-> FALSE, name |-> <<>>, rhs |-> <<>>]
    ELSE [ok |-> TRUE, name |-> Slice(s, g1, p1), rhs |-> Slice(s, t.a, t.b)]

AssignmentName(s, g1, p1) ==
    AssignmentGroups(s, g1, p1, TailGroup(s, Lit(s, Ws(s, p1), <<"=">>), FALSE))

ASSIGNMENT_PATTERN_match(s) == AssignmentName(s, Ws(s, 1), Ident(s, Ws(s, 1)))

\* (?<![<>=!])=(?!=)
EQUALITY_PATTERN(s, i) ==
    IF /\ At(s, i) = "="
       /\ At(s, i - 1) \notin {"<", ">", "=", "!"}
       /\ At(s, i + 1) # "="
    THEN [e |-> i + 1, r |-> <<>>]
    ELSE NoMatch

\* \s*/\s*d\s*(ident)\b from index p: [g, e], the bounds of the identifier
LeibnizDenominator(s, p) ==
    LET g == Ws(s, Lit(s, Ws(s, Lit(s, Ws(s, p), <<"/">>)), <<"d">>))
    IN  [g |-> g, e |-> Ident(s, g)]

\* \bd\s*\((.+?)\)\s*/\s*d\s*(ident)\b   ->   d(\1, \2)
LeibnizCallPattern(s, i) ==
    LET g1 == Lit(s, Ws(s, Lit(s, Bnd(s, i), <<"d">>)), <<"(">>)
        closes == { m \in (g1 + 1)..Len(s) :
                      /\ s[m] = ")"
                      /\ NotNewline(s, g1, m)
                      /\ LeibnizDenominator(s, m + 1).e > 0 }
    IN  IF g1 = 0 \/ closes = {} THEN NoMatch
        ELSE LET m == Min(closes)
                 den == LeibnizDenominator(s, m + 1)
             IN  [e |-> den.e,
                  r |-> <<"d", "(">> \o Slice(s, g1, m) \o <<",", " ">>
                            \o Slice(s, den.g, den.e) \o <<")">>]

\* \bd\s*(ident(?:\([^()]*\))?)\s*/\s*d\s*(ident)\b
LEIBNIZ_SIMPLE_PATTERN(s, i) ==
    LET g1 == Ws(s, Lit(s, Bnd(s, i), <<"d">>))
        p1 == Ident(s, g1)
        p2 == Lit(s, RunNot0(s, Lit(s, p1, <<"(">>), Parens), <<")">>)
        e1 == IF p2 > 0 THEN p2 ELSE p1
        den == LeibnizDenominator(s, e1)
    IN  IF den.e = 0 THEN NoMatch
        ELSE [e |-> den.e,
              r |-> <<"d", "(">>
                        \o _dependent_expr(Slice(s, g1, e1), Slice(s, den.g, den.e))
                        \o <<",", " ">> \o Slice(s, den.g, den.e) \o <<")">>]

\* \bd\s*\(\s*(?:yf\s*\(|y\b)
DerivativeOfYPattern(s, i) ==
    LET p == Ws(s, Lit(s, Ws(s, Lit(s, Bnd(s, i), <<"d">>)), <<"(">>))
    IN  IF \/ Lit(s, Ws(s, Lit(s, p, <<"y", "f">>)), <<"(">>) > 0
           \/ Bnd(s, Lit(s, p, <<"y">>)) > 0
        THEN [e |-> i + 1, r |-> <<>>]
        ELSE NoMatch

\* \bd\s*\(\s*f\s*\(
DerivativeOfFPattern(s, i) ==
    LET p == Ws(s, Lit(s, Ws(s, Lit(s, Bnd(s, i), <<"d">>)), <<"(">>))
    IN  IF Lit(s, Ws(s, Lit(s, p, <<"f">>)), <<"(">>) > 0
        THEN [e |-> i + 1, r |-> <<>>]
        ELSE NoMatch

\* the second rewrite, of f, on the text out the first one left
OdeDependentF(out, rlx) ==
    IF Search(out, Matches(out, DerivativeOfFPattern))
    THEN _replace_bare_dependent(out, <<"f">>, <<"f", "(", "x", ")">>, rlx)
    ELSE out

_normalize_ode_equation_dependents(text, rlx) ==
    IF ~Search(text, Matches(text, EQUALITY_PATTERN)) THEN text
    ELSE OdeDependentF(IF Search(text, Matches(text, DerivativeOfYPattern))
                       THEN _replace_bare_dependent(text, <<"y">>,
                                                    <<"y", "f", "(", "x", ")">>, rlx)
                       ELSE text,
                       rlx)

\* a variant of the last stage that does not test ASSIGNMENT_PATTERN
Mut_EqualityToEq_ignores_assignment(s) ==
    IF Search(s, Matches(s, EQUALITY_PATTERN))
    THEN LET q == Min({ i \in 1..Len(s) : EQUALITY_PATTERN(s, i).e > 0 })
             lhs == Strip(Slice(s, 1, q))
             rhs == Strip(Slice(s, q + 1, Len(s) + 1))
         IN  IF lhs # <<>> /\ rhs # <<>>
             THEN <<"E", "q", "(">> \o lhs \o <<",", " ">> \o rhs \o <<")">>
             ELSE s
    ELSE s

\* the last stage of normalize_expression: a bare equality becomes Eq(lhs, rhs)
EqualityToEq(s) ==
    IF Search(s, Matches(s, EQUALITY_PATTERN)) /\ ~ASSIGNMENT_PATTERN_match(s).ok
    THEN LET q == Min({ i \in 1..Len(s) : EQUALITY_PATTERN(s, i).e > 0 })
             lhs == Strip(Slice(s, 1, q))
             rhs == Strip(Slice(s, q + 1, Len(s) + 1))
         IN  IF lhs # <<>> /\ rhs # <<>>
             THEN <<"E", "q", "(">> \o lhs \o <<",", " ">> \o rhs \o <<")">>
             ELSE s
    ELSE s

\* the stages of normalize_expression up to the bare-trig shorthand, which
\* relaxed_function_rewrites repeats
\* the text after the wrappers are stripped and the Unicode minus replaced
StripStage(expr) == ReplaceChar(_strip_outer_wrappers(expr), UMinus, "-")

\* from there, the text after the LaTeX notation, the braces and ln(
LatexStage(n2) ==
    Only({ Sub(ReplaceChar(ReplaceChar(n3, "{", "("), "}", ")"), LnCallPattern) :
           n3 \in { _replace_latex_notation(n2) } })

\* relaxed_function_rewrites: its own copy of the stages up to the bare-trig
\* shorthand
BeforeBareFunction(expr) ==
    Only({ Sub(ReplaceChar(ReplaceChar(n3, "{", "("), "}", ")"), LnCallPattern) :
           n3 \in { _replace_latex_notation(n2) :
           n2 \in { ReplaceChar(_strip_outer_wrappers(expr), UMinus, "-") } } })

\* from there, the text after the bare-trig shorthand, the prime notations
\* and y(, on which ODE_SHORT_EQ_PATTERN is tried
ShorthandStage(n5, rlx) ==
    Only({ Sub(n8, YCallPattern) :
           n8 \in { _replace_prime_notation(n7) :
           n7 \in { _replace_prime_at_point_notation(n6) :
           n6 \in { _normalize_bare_function_shorthand(n5, rlx).text } } } })

\* the stages after the short Leibniz equation, up to the equality stage
BeforeEquality(n9, rlx) ==
    Only({ _normalize_ode_equation_dependents(n11, rlx) :
           n11 \in { Sub(n10, LEIBNIZ_SIMPLE_PATTERN) :
           n10 \in { Sub(n9, LeibnizCallPattern) } } })

\* the return at the short Leibniz equation form
OdeShortEqReturn(ode_match, dep_expr, rlx) ==
    <<"E", "q", "(", "d", "(">> \o dep_expr \o <<",", " ">> \o ode_match.var
        \o <<")", ",", " ">>
        \o _replace_bare_dependent(ode_match.rhs, ode_match.dep, dep_expr, rlx)
        \o <<")">>

\* the value normalize_expression returns, from the text n9 on which
\* ODE_SHORT_EQ_PATTERN is tried and the text n12 that reaches the equality
\* stage when it does not match
NormalizeReturn(n9, n12, ode_match, rlx) ==
    IF ode_match.ok
    THEN OdeShortEqReturn(ode_match, _dependent_expr(ode_match.dep, ode_match.var), rlx)
    ELSE EqualityToEq(n12)

\* normalize_expression: the successive values of its local `normalized` are
\* kept in stripped, latexed, shorthand and staged, and the returned text in
\* normalized
normalize_expression(expr, rlx) ==
    /\ stripped' = StripStage(expr)
    /\ latexed' = LatexStage(stripped')
    /\ shorthand' = ShorthandStage(latexed', rlx)
    /\ staged' = IF ODE_SHORT_EQ_PATTERN_match(shorthand').ok THEN shorthand'
                 ELSE BeforeEquality(shorthand', rlx)
    /\ normalized' = NormalizeReturn(shorthand', staged',
                                      ODE_SHORT_EQ_PATTERN_match(shorthand'), rlx)

relaxed_function_rewrites(expr) ==
    _normalize_bare_function_shorthand(BeforeBareFunction(expr), TRUE).rewrites

\* diagnostics: f"interpreted '{original}' as '{rewritten}'"
RewriteMessage(pair) ==
    <<"i", "n", "t", "e", "r", "p", "r", "e", "t", "e", "d", " ", "'">>
        \o pair[1] \o <<"'", " ", "a", "s", " ", "'">> \o pair[2] \o <<"'">>

\* the loop of relaxed_rewrite_messages over rewrites[i..], with the pairs of
\* rewrites[1..i-1] in `seen`
RECURSIVE RewriteMessagesFrom(_, _)
RewriteMessagesFrom(rewrites, i) ==
    IF i > Len(rewrites) THEN <<>>
    ELSE IF \E j \in 1..(i - 1) : rewrites[j] = rewrites[i]
    THEN RewriteMessagesFrom(rewrites, i + 1)
    ELSE <<RewriteMessage(rewrites[i])>> \o RewriteMessagesFrom(rewrites, i + 1)

relaxed_rewrite_messages(expr, rlx) ==
    IF ~rlx THEN <<>>
    ELSE RewriteMessagesFrom(relaxed_function_rewrites(expr), 1)

(***************************************************************************)
(* Guard/Validator: _validate_expression                                  *)
(***************************************************************************)
MAX_EXPRESSION_CHARS == 2000

\* BLOCKED_PATTERN.search: (__|;|\n|\r)
BLOCKED_PATTERN_search(s) ==
    \E i \in 1..Len(s) :
        \/ s[i] \in {";", "\n", "\r"}
        \/ s[i] = "_" /\ At(s, i + 1) = "_"

ErrEmpty == "empty expression"
ErrTooLong == "expression too long (max 2000 chars)"
ErrBlocked == "blocked token in expression"

Mut_validate_blocked_first(s) ==
    IF Strip(s) = <<>> THEN ErrEmpty
    ELSE IF BLOCKED_PATTERN_search(s) THEN ErrBlocked
    ELSE IF Len(s) > MAX_EXPRESSION_CHARS THEN ErrTooLong
    ELSE NoError

\* the message of the ValueError raised, or NoError when the call returns
_validate_expression(s) ==
    IF Strip(s) = <<>> THEN ErrEmpty
    ELSE IF Len(s) > MAX_EXPRESSION_CHARS THEN ErrTooLong
    ELSE IF BLOCKED_PATTERN_search(s) THEN ErrBlocked
    ELSE NoError

(***************************************************************************)
(* The validator on its own: the inputs are short texts, alone or padded   *)
(* up to the length limit.                                                 *)
(***************************************************************************)
Pad(n, c) == [i \in 1..n |-> c]

ValidateCores ==
    { <<>>, <<"1">>, <<"_">>, <<"_", "_">>, <<"a", "_", "_", "b">>,
      <<"_", "1", "_">>, <<";">>, <<"1", ";", "2">>, <<"\n">>, <<"1", "\n">>,
      <<"\r">>, <<"1", "\r", "2">>, <<" ">>, <<"\t", " ">>, <<" ", "1", " ">>,
      <<"x", "+", "1">>, <<"_", " ", "_">> }

\* distance of the padded length from MAX_EXPRESSION_CHARS
PadSlack == 1

ValidateInputs ==
    ValidateCores \cup
    { Pad(MAX_EXPRESSION_CHARS - Len(c) + d, p) \o c :
        c \in ValidateCores, d \in (0 - PadSlack)..PadSlack, p \in {" ", "1"} }
        \cup
    { c \o Pad(MAX_EXPRESSION_CHARS - Len(c) + d, p) :
        c \in ValidateCores, d \in (0 - PadSlack)..PadSlack, p \in {" ", "1"} }

InitValidate ==
    /\ CliIdle
    /\ expression \in ValidateInputs
    /\ relaxed = FALSE
    /\ simplify_output = TRUE
    /\ pc = "validate"
    /\ normalized = <<>>
    /\ error = NoError
    /\ result = NoValue
    /\ session_locals \in {None, Dict(EmptyItems)}
    /\ stages = <<>>
    /\ calls = 0
    /\ stripped = <<>>
    /\ latexed = <<>>
    /\ shorthand = <<>>
    /\ staged = <<>>
    /\ previous = <<>>
    /\ match_name = <<>>
    /\ guarded_expr = <<>>
    /\ parsed_safe = NoValue
    /\ parsed_expr = NoValue
    /\ returned = NoValue

ValidateReturns ==
    /\ pc = "validate"
    /\ _validate_expression(expression) = NoError
    /\ pc' = "returned"
    /\ stages' = Append(stages, "validate")
    /\ UNCHANGED <<cli_vars, expression, relaxed, simplify_output, normalized, error,
                   result, session_locals, calls, normalizer_vars, previous,
                   evaluate_vars, returned>>

ValidateRaises ==
    /\ pc = "validate"
    /\ _validate_expression(expression) # NoError
    /\ pc' = "raised"
    /\ error' = _validate_expression(expression)
    /\ stages' = Append(stages, "validate")
    /\ UNCHANGED <<cli_vars, expression, relaxed, simplify_output, normalized, result,
                   session_locals, calls, normalizer_vars, previous,
                   evaluate_vars, returned>>

NextValidate == ValidateReturns \/ ValidateRaises

SpecValidate == InitValidate /\ [][NextValidate]_vars

\* no blank-only text, at most 2000 characters, none of "__", ";", CR, NL
C4_Acceptable(s) ==
    /\ \E i \in 1..Len(s) : s[i] \notin Space
    /\ Len(s) <= 2000
    /\ \A i \in 1..Len(s) : s[i] \notin {";", "\r", "\n"}
    /\ \A i \in 1..(Len(s) - 1) : ~(s[i] = "_" /\ s[i + 1] = "_")

\* the error the precedence empty, too long, blocked token selects
C4_FirstViolation(s) ==
    IF \A i \in 1..Len(s) : s[i] \in Space THEN "empty expression"
    ELSE IF Len(s) > 2000 THEN "expression too long (max 2000 chars)"
    ELSE "blocked token in expression"

\* C4: the validator returns exactly for the texts whose trimmed form is
\* non-empty, whose length is at most 2000 and that hold none of "__", ";",
\* CR, NL; when it raises, the error is the first of empty, too long, blocked
\* token that applies; and it changes neither its argument nor the session.
C4_ValidatorContract ==
    /\ [](pc = "returned" => C4_Acceptable(expression) /\ error = NoError)
    /\ [](pc = "raised" => /\ ~C4_Acceptable(expression)
                           /\ error = C4_FirstViolation(expression))
    /\ [][UNCHANGED <<expression, session_locals, normalized, result>>]_vars

\* a text of 2001 characters that also holds a blocked token is rejected as
\* too long
C4_Witness ==
    /\ pc = "raised"
    /\ Len(expression) = 2001
    /\ \E i \in 1..Len(expression) : expression[i] = ";"
    /\ error = ErrTooLong

(***************************************************************************)
(* The keys of LOCALS_DICT, the evaluator's built-in vocabulary            *)
(***************************************************************************)
LOCALS_DICT ==
    { <<"x">>, <<"y">>, <<"z">>, <<"t">>, <<"p", "i">>, <<"e">>, <<"f">>,
      <<"y", "f">>, <<"d">>, <<"i", "n", "t">>, <<"g", "c", "d">>,
      <<"l", "c", "m">>, <<"i", "s", "p", "r", "i", "m", "e">>,
      <<"f", "a", "c", "t", "o", "r", "i", "n", "t">>, <<"n", "u", "m">>,
      <<"d", "e", "n">>, <<"s", "o", "l", "v", "e">>,
      <<"d", "s", "o", "l", "v", "e">>, <<"E", "q">>, <<"N">>,
      <<"s", "i", "n">>, <<"c", "o", "s">>, <<"t", "a", "n">>,
      <<"e", "x", "p">>, <<"l", "o", "g">>, <<"s", "q", "r", "t">>,
      <<"a", "b", "s">>, <<"M", "a", "t", "r", "i", "x">>, <<"e", "y", "e">>,
      <<"z", "e", "r", "o", "s">>, <<"o", "n", "e", "s">>, <<"d", "e", "t">>,
      <<"i", "n", "v">>, <<"r", "a", "n", "k">>,
      <<"e", "i", "g", "v", "a", "l", "s">>, <<"r", "r", "e", "f">>,
      <<"n", "u", "l", "l", "s", "p", "a", "c", "e">>,
      <<"m", "s", "o", "l", "v", "e">>,
      <<"l", "i", "n", "s", "o", "l", "v", "e">>,
      <<"s", "y", "m", "b", "o", "l", "s">>, <<"S">> }

(***************************************************************************)
(* Integer arithmetic cut at a limit: Python's integers are unbounded, and *)
(* the guardrails only ask whether a magnitude exceeds a cap.              *)
(***************************************************************************)
\* min(x * y, lim + 1) for naturals x and y
SatMul(x, y, lim) ==
    IF x = 0 \/ y = 0 THEN 0
    ELSE IF x > lim \div y THEN lim + 1
    ELSE x * y

RECURSIVE SatPow(_, _, _)
\* min(a ^ e, lim + 1) for naturals a and e, by repeated squaring
SatPow(a, e, lim) ==
    IF e = 0 THEN 1
    ELSE IF e % 2 = 1 THEN SatMul(a, SatPow(a, e - 1, lim), lim)
    ELSE SatPow(SatMul(a, a, lim), e \div 2, lim)

\* base ^ exp with its sign, the magnitude cut at lim + 1
SignedPow(base, exp, lim) ==
    IF base < 0 /\ exp % 2 = 1 THEN 0 - SatPow(0 - base, exp, lim)
    ELSE SatPow(Abs(base), exp, lim)

RECURSIVE FactorialFrom(_, _, _, _)
\* min(n!, lim + 1): acc times k, k + 1, ..., n
FactorialFrom(k, n, acc, lim) ==
    IF k > n \/ acc > lim THEN acc
    ELSE FactorialFrom(k + 1, n, SatMul(acc, k, lim), lim)

RECURSIVE DigitsCappedFrom(_, _, _, _)
DigitsCappedFrom(ds, i, acc, cap) ==
    IF i > Len(ds) THEN acc
    ELSE IF acc * 10 + DigitVal(ds[i]) > cap
    THEN DigitsCappedFrom(ds, i + 1, cap + 1, cap)
    ELSE DigitsCappedFrom(ds, i + 1, acc * 10 + DigitVal(ds[i]), cap)

\* int(ds) for a text of digits, cut at cap + 1
DigitsCapped(ds, cap) == DigitsCappedFrom(ds, 1, 0, cap)

DigitChar(d) ==
    CASE d = 0 -> "0" [] d = 1 -> "1" [] d = 2 -> "2" [] d = 3 -> "3"
      [] d = 4 -> "4" [] d = 5 -> "5" [] d = 6 -> "6" [] d = 7 -> "7"
      [] d = 8 -> "8" [] d = 9 -> "9"

RECURSIVE ToDigits(_)
\* str(n) for a natural n
ToDigits(n) ==
    IF n < 10 THEN <<DigitChar(n)>>
    ELSE ToDigits(n \div 10) \o <<DigitChar(n % 10)>>

(***************************************************************************)
(* The engine (sympy), as far as the evaluator uses it.                    *)
(*                                                                         *)
(* An expression tree, as parse_expr(evaluate=False) builds it, is a leaf  *)
(*   [k |-> "Integer", neg, digits]   an integer literal                   *)
(*   [k |-> "Name", name]             a name not looked up yet             *)
(*   [k |-> "Symbol", name], [k |-> "Constant", name],                     *)
(*   [k |-> "Callable", name]         what a name of the vocabulary holds  *)
(*   [k |-> "Value", v]               an evaluated value (a session value, *)
(*                                    the result of a call of d)           *)
(*   [k |-> "Dummy", of]              the placeholder of the power `of`    *)
(* or a node [k, f, args] with k one of "Add", "Sub", "Mul", "Pow", "Neg", *)
(* "Cmp" (f: the operator), "Apply" (f: the function name), "List".        *)
(*                                                                         *)
(* An evaluated value is [k |-> "list", items], [k |-> "bool", val] or a   *)
(* sum c + t[a1]*a1 + ... of atoms with integer coefficients,              *)
(* [k |-> "Lin", c, t]: automatic evaluation collects like terms.  An atom *)
(* is a Symbol, Constant, Callable or Dummy leaf, an Integer literal over  *)
(* MaxExactInteger, or [k, f, args] with k "Pow", "Apply", "Mul" or        *)
(* "Number" (a number base ^ exp kept as its two operands) over values.    *)
(***************************************************************************)
\* integers up to this magnitude are computed with; larger ones are kept
\* as their digits or their operands
MaxExactInteger == 1000000

Node(k, f, args) == [k |-> k, f |-> f, args |-> args]
Composite == {"Add", "Sub", "Mul", "Pow", "Neg", "Cmp", "Apply", "List"}
Error(err) == [k |-> "Error", err |-> err]

IntegerNode(n) == [k |-> "Integer", neg |-> n < 0, digits |-> ToDigits(Abs(n))]

EmptyTerms == [a \in {} |-> 0]
Lin(c, t) == [k |-> "Lin", c |-> c, t |-> t]
Number(n) == Lin(n, EmptyTerms)
Atom(a) == Lin(0, [b \in {a} |-> 1])
IsNumber(v) == v.k = "Lin" /\ DOMAIN v.t = {}
AsLin(v) == IF v.k = "Lin" THEN v ELSE Atom(v)
Coef(v, a) == IF a \in DOMAIN v.t THEN v.t[a] ELSE 0

LinAdd(u, v) ==
    Lin(u.c + v.c,
        [a \in { b \in DOMAIN u.t \cup DOMAIN v.t : Coef(u, b) + Coef(v, b) # 0 }
            |-> Coef(u, a) + Coef(v, a)])

LinScale(n, v) ==
    IF n = 0 THEN Number(0)
    ELSE Lin(n * v.c, [a \in DOMAIN v.t |-> n * v.t[a]])

\* a number: no symbol, function application or placeholder in it
IsExact(v) == v.k = "Lin" /\ \A a \in DOMAIN v.t : a.k \in {"Integer", "Number"}

\* Pow(b, e) evaluated
EvalPow(b, e) ==
    IF IsNumber(b) /\ IsNumber(e)
    THEN IF e.c >= 0 /\ SatPow(Abs(b.c), e.c, MaxExactInteger) <= MaxExactInteger
         THEN Number(SignedPow(b.c, e.c, MaxExactInteger))
         ELSE Atom(Node("Number", <<"^">>, <<b, e>>))
    ELSE IF IsExact(b) /\ IsExact(e) THEN Atom(Node("Number", <<"^">>, <<b, e>>))
    ELSE IF e = Number(1) THEN b
    ELSE IF e = Number(0) THEN Number(1)
    ELSE Atom(Node("Pow", <<"^">>, <<b, e>>))

\* Mul(u, v) evaluated
LinMul(u, v) ==
    IF IsNumber(u) THEN LinScale(u.c, v)
    ELSE IF IsNumber(v) THEN LinScale(v.c, u)
    ELSE IF u = v THEN EvalPow(u, Number(2))
    ELSE Atom([k |-> "Mul", f |-> <<"*">>, args |-> {u, v}])

FactorialName == <<"f", "a", "c", "t", "o", "r", "i", "a", "l">>

\* f(*args) for a function of the engine that is no operation of this module
EvalApply(f, args) ==
    IF /\ f = FactorialName
       /\ Len(args) = 1
       /\ IsNumber(args[1])
       /\ args[1].c >= 0
       /\ FactorialFrom(1, args[1].c, 1, MaxExactInteger) <= MaxExactInteger
    THEN Number(FactorialFrom(1, args[1].c, 1, MaxExactInteger))
    ELSE Atom(Node("Apply", f, args))

\* the value of an integer literal
IntegerValue(u) ==
    IF DigitsCapped(u.digits, MaxExactInteger) > MaxExactInteger THEN Atom(u)
    ELSE IF u.neg THEN Number(0 - DigitsCapped(u.digits, MaxExactInteger))
    ELSE Number(DigitsCapped(u.digits, MaxExactInteger))

RECURSIVE Eval(_)
\* the automatic evaluation of a tree: what evaluate=True and simplify make
\* of it
EvalNode(u, args) ==
    CASE u.k = "Add" -> LinAdd(AsLin(args[1]), AsLin(args[2]))
      [] u.k = "Sub" -> LinAdd(AsLin(args[1]), LinScale(0 - 1, AsLin(args[2])))
      [] u.k = "Neg" -> LinScale(0 - 1, AsLin(args[1]))
      [] u.k = "Mul" -> LinMul(AsLin(args[1]), AsLin(args[2]))
      [] u.k = "Pow" -> EvalPow(AsLin(args[1]), AsLin(args[2]))
      [] u.k = "Cmp" -> [k |-> "bool",
                         val |-> (args[1] = args[2]) = (u.f = <<"=", "=">>)]
      [] u.k = "Apply" -> EvalApply(u.f, args)
      [] u.k = "List" -> [k |-> "list", items |-> args]

Eval(u) ==
    IF u.k = "Integer" THEN IntegerValue(u)
    ELSE IF u.k = "Value" THEN u.v
    ELSE IF u.k \in Composite
    THEN EvalNode(u, [i \in 1..Len(u.args) |-> Eval(u.args[i])])
    ELSE Atom(u)

\* an evaluated value as a leaf of a tree: an integer is an Integer
Leaf(v) == IF IsNumber(v) THEN IntegerNode(v.c) ELSE [k |-> "Value", v |-> v]

RECURSIVE free_symbols(_)
RECURSIVE AtomSymbols(_)
AtomSymbols(a) ==
    IF a.k \in {"Symbol", "Dummy"} THEN {a}
    ELSE IF a.k \in {"Pow", "Apply", "Number"}
    THEN UNION { free_symbols(a.args[i]) : i \in 1..Len(a.args) }
    ELSE IF a.k = "Mul" THEN UNION { free_symbols(u) : u \in a.args }
    ELSE {}

\* expr.free_symbols
free_symbols(v) ==
    IF v.k = "Lin" THEN UNION { AtomSymbols(a) : a \in DOMAIN v.t }
    ELSE {}

SinName == <<"s", "i", "n">>
CosName == <<"c", "o", "s">>

\* fn(u) ^ 2
Squared(fn, u) == Node("Pow", <<"^">>, <<Atom(Node("Apply", fn, <<u>>)), Number(2)>>)

\* the argument u of an atom fn(u) ^ 2
SquaredArg(a) == (CHOOSE b \in DOMAIN a.args[1].t : TRUE).args[1]

IsSquared(a, fn) ==
    /\ a.k = "Pow"
    /\ a.args[2] = Number(2)
    /\ a.args[1].k = "Lin"
    /\ \E b \in DOMAIN a.args[1].t :
           b.k = "Apply" /\ b.f = fn /\ Len(b.args) = 1 /\ a = Squared(fn, b.args[1])

\* the atoms sin(u)^2 of v that come with cos(u)^2 under the same coefficient
TrigPairs(v) ==
    { a \in DOMAIN v.t :
        /\ IsSquared(a, SinName)
        /\ Squared(CosName, SquaredArg(a)) \in DOMAIN v.t
        /\ v.t[Squared(CosName, SquaredArg(a))] = v.t[a] }

\* v with n*sin(u)^2 + n*cos(u)^2 replaced by n, for the atom a = sin(u)^2
TrigCancel(v, a) ==
    LinAdd(v, Lin(v.t[a],
                  [b \in {a, Squared(CosName, SquaredArg(a))} |-> 0 - v.t[a]]))

RECURSIVE simplify(_)
\* simplify(expr): on an evaluated value, sin^2 + cos^2 = 1 is what is left
\* to apply
simplify(v) ==
    IF v.k # "Lin" THEN v
    ELSE IF TrigPairs(v) = {} THEN v
    ELSE simplify(TrigCancel(v, CHOOSE a \in TrigPairs(v) : TRUE))

DerivativeName == <<"D", "e", "r", "i", "v", "a", "t", "i", "v", "e">>

\* the atoms of v, other than s itself, that depend on s
DependentAtoms(v, s) == { b \in DOMAIN v.t : b # s /\ s \in AtomSymbols(b) }

\* diff(v, s): the coefficient of s, and an unevaluated Derivative for each
\* other atom that depends on s
diff(v, s) ==
    LinAdd(Number(Coef(v, s)),
           Lin(0, [da \in { Node("Apply", DerivativeName, <<Atom(b), Atom(s)>>) :
                              b \in DependentAtoms(v, s) }
                      |-> v.t[CHOOSE b \in DOMAIN da.args[1].t : TRUE]]))

ErrNoVariable == "d(expr) requires a variable (no symbols found)"
ErrAmbiguous == "ambiguous variable for d(expr); pass one explicitly"

\* the symbol found, or the ValueError raised
_infer_variable(expr) ==
    IF Cardinality(free_symbols(expr)) = 1 THEN CHOOSE s \in free_symbols(expr) : TRUE
    ELSE IF free_symbols(expr) = {} THEN Error(ErrNoVariable)
    ELSE Error(ErrAmbiguous)

\* diff(expr, var), var a symbol or the error that finding it raised
DiffBy(expr, var) ==
    IF var.k = "Error" THEN var
    ELSE IF var.k # "Symbol" THEN Error("ValueError")
    ELSE Leaf(diff(expr, var))

\* the one atom of a value that is a bare atom, or the value
SoleAtom(v) ==
    IF v.k = "Lin" /\ v.c = 0 /\ \E a \in DOMAIN v.t : v = Atom(a)
    THEN CHOOSE a \in DOMAIN v.t : TRUE
    ELSE v

\* _d(*args), called on the trees of its arguments
_d(args) ==
    IF Len(args) = 1
    THEN DiffBy(AsLin(Eval(args[1])), _infer_variable(AsLin(Eval(args[1]))))
    ELSE IF Len(args) = 2
    THEN DiffBy(AsLin(Eval(args[1])), SoleAtom(Eval(args[2])))
    ELSE Error("TypeError")

(***************************************************************************)
(* The parser (parse_expr): Python's tokens and expression grammar under   *)
(* the transformations of TRANSFORMS and RELAXED_TRANSFORMS, for integer   *)
(* literals, names, calls, lists, + - * ^ ! and the comparisons == and !=. *)
(***************************************************************************)
TwoCharOps == { <<"!", "=">>, <<"=", "=">>, <<"*", "*">> }

\* \d+ as a piece
Digits(s, i) ==
    IF i = 0 \/ At(s, i) \notin Digit THEN 0
    ELSE CHOOSE j \in (i + 1)..(Len(s) + 1) :
             /\ \A k \in (i + 1)..(j - 1) : s[k] \in Digit
             /\ At(s, j) \notin Digit

\* the index after the token that starts at i
TokenEnd(s, i) ==
    IF s[i] \in Digit THEN Digits(s, i)
    ELSE IF s[i] \in Letter \cup {"_"}
    THEN CHOOSE j \in (i + 1)..(Len(s) + 1) :
             /\ \A k \in (i + 1)..(j - 1) : s[k] \in WordChar
             /\ At(s, j) \notin WordChar
    ELSE IF <<s[i], At(s, i + 1)>> \in TwoCharOps THEN i + 2
    ELSE i + 1

RECURSIVE TokensFrom(_, _)
RECURSIVE TokensAt(_, _, _)
TokensAt(s, i, j) == <<Slice(s, i, j)>> \o TokensFrom(s, j)

TokensFrom(s, i) ==
    IF SkipWs(s, i) > Len(s) THEN <<>>
    ELSE TokensAt(s, SkipWs(s, i), TokenEnd(s, SkipWs(s, i)))

\* the tokens of a text, each the text of the token
Tokens(s) == TokensFrom(s, 1)

\* the token at index i, <<>> past the end
Tok(ts, i) == IF i <= Len(ts) THEN ts[i] ELSE <<>>
IsNum(tok) == tok # <<>> /\ tok[1] \in Digit
IsName(tok) == tok # <<>> /\ tok[1] \in Letter \cup {"_"}

\* a decimal literal with a leading zero is no Python literal, unless it is
\* all zeros
IsLiteral(tok) == IsNum(tok) /\ (tok[1] # "0" \/ \A i \in 1..Len(tok) : tok[i] = "0")

\* a parse: the tree e and the index n after it, or a failure
Fail == [ok |-> FALSE]
Ok(e, n) == [ok |-> TRUE, e |-> e, n |-> n]

Binary(k, f, l, r) == IF r.ok THEN Ok(Node(k, f, <<l.e, r.e>>), r.n) ELSE Fail
Unary(k, f, r) == IF r.ok THEN Ok(Node(k, f, <<r.e>>), r.n) ELSE Fail
Closed(ts, r, close) ==
    IF r.ok /\ Tok(ts, r.n) = close THEN Ok(r.e, r.n + 1) ELSE Fail
Prepend(first, rest) == IF rest.ok THEN Ok(<<first>> \o rest.e, rest.n) ELSE Fail
Applied(k, f, r) == IF r.ok THEN Ok(Node(k, f, r.e), r.n) ELSE Fail

RECURSIVE ParseExpr(_, _, _)
RECURSIVE ParseSumRest(_, _, _)
RECURSIVE ParseTerm(_, _, _)
RECURSIVE ParseTermRest(_, _, _)
RECURSIVE ParseFactor(_, _, _)
RECURSIVE ParsePower(_, _, _)
RECURSIVE ParsePostfixRest(_, _)
RECURSIVE ParseAtom(_, _, _)
RECURSIVE ParseArgs(_, _, _, _)
RECURSIVE ParseArgsRest(_, _, _, _)

\* name | name(args) | literal | (expr) | [args]
ParseAtom(ts, i, rlx) ==
    IF IsLiteral(Tok(ts, i))
    THEN Ok([k |-> "Integer", neg |-> FALSE,
             digits |-> IF Tok(ts, i)[1] = "0" THEN <<"0">> ELSE Tok(ts, i)], i + 1)
    ELSE IF IsName(Tok(ts, i))
    THEN IF Tok(ts, i + 1) = <<"(">>
         THEN Applied("Apply", Tok(ts, i), ParseArgs(ts, i + 2, <<")">>, rlx))
         ELSE Ok([k |-> "Name", name |-> Tok(ts, i)], i + 1)
    ELSE IF Tok(ts, i) = <<"(">>
    THEN Closed(ts, ParseExpr(ts, i + 1, rlx), <<")">>)
    ELSE IF Tok(ts, i) = <<"[">>
    THEN Applied("List", <<"[">>, ParseArgs(ts, i + 1, <<"]">>, rlx))
    ELSE Fail

\* the expressions up to the closing token, separated by commas
ParseArgs(ts, i, close, rlx) ==
    IF Tok(ts, i) = close THEN Ok(<<>>, i + 1)
    ELSE ParseArgsRest(ts, ParseExpr(ts, i, rlx), close, rlx)

ParseArgsRest(ts, first, close, rlx) ==
    IF ~first.ok THEN Fail
    ELSE IF Tok(ts, first.n) = close THEN Ok(<<first.e>>, first.n + 1)
    ELSE IF Tok(ts, first.n) = <<",">>
    THEN Prepend(first.e, ParseArgs(ts, first.n + 1, close, rlx))
    ELSE Fail

\* factorial_notation: atom!...
ParsePostfixRest(ts, l) ==
    IF ~l.ok THEN Fail
    ELSE IF Tok(ts, l.n) = <<"!">>
    THEN ParsePostfixRest(ts, Ok(Node("Apply", FactorialName, <<l.e>>), l.n + 1))
    ELSE l

PowerOf(ts, l, rlx) ==
    IF ~l.ok THEN Fail
    ELSE IF Tok(ts, l.n) \in { <<"^">>, <<"*", "*">> }
    THEN Binary("Pow", <<"^">>, l, ParseFactor(ts, l.n + 1, rlx))
    ELSE l

\* convert_xor: postfix ^ factor, to the right
ParsePower(ts, i, rlx) == PowerOf(ts, ParsePostfixRest(ts, ParseAtom(ts, i, rlx)), rlx)

ParseFactor(ts, i, rlx) ==
    IF Tok(ts, i) = <<"-">> THEN Unary("Neg", <<"-">>, ParseFactor(ts, i + 1, rlx))
    ELSE ParsePower(ts, i, rlx)

\* implicit_multiplication_application: in relaxed mode a factor may follow
\* another with no operator between them
StartsAtom(tok) == IsNum(tok) \/ IsName(tok) \/ tok = <<"(">>

ParseTermRest(ts, l, rlx) ==
    IF ~l.ok THEN Fail
    ELSE IF Tok(ts, l.n) = <<"*">>
    THEN ParseTermRest(ts, Binary("Mul", <<"*">>, l, ParseFactor(ts, l.n + 1, rlx)), rlx)
    ELSE IF rlx /\ StartsAtom(Tok(ts, l.n))
    THEN ParseTermRest(ts, Binary("Mul", <<"*">>, l, ParsePower(ts, l.n, rlx)), rlx)
    ELSE l

ParseTerm(ts, i, rlx) == ParseTermRest(ts, ParseFactor(ts, i, rlx), rlx)

ParseSumRest(ts, l, rlx) ==
    IF ~l.ok THEN Fail
    ELSE IF Tok(ts, l.n) = <<"+">>
    THEN ParseSumRest(ts, Binary("Add", <<"+">>, l, ParseTerm(ts, l.n + 1, rlx)), rlx)
    ELSE IF Tok(ts, l.n) = <<"-">>
    THEN ParseSumRest(ts, Binary("Sub", <<"-">>, l, ParseTerm(ts, l.n + 1, rlx)), rlx)
    ELSE l

ParseSum(ts, i, rlx) == ParseSumRest(ts, ParseTerm(ts, i, rlx), rlx)

ComparisonOf(ts, l, rlx) ==
    IF ~l.ok THEN Fail
    ELSE IF Tok(ts, l.n) \in { <<"!", "=">>, <<"=", "=">> }
    THEN Binary("Cmp", Tok(ts, l.n), l, ParseSum(ts, l.n + 1, rlx))
    ELSE l

ParseExpr(ts, i, rlx) == ComparisonOf(ts, ParseSum(ts, i, rlx), rlx)

\* the whole of the tokens is one expression
Complete(ts, r) == IF r.ok /\ r.n = Len(ts) + 1 THEN r ELSE Fail

ParseAll(ts, rlx) == Complete(ts, ParseExpr(ts, 1, rlx))

(***************************************************************************)
(* The names the parsed code is evaluated with: local_dict (LOCALS_DICT    *)
(* updated with the session) and GLOBAL_DICT                               *)
(***************************************************************************)
GLOBAL_DICT ==
    { <<"A", "d", "d">>, <<"I", "n", "t", "e", "g", "e", "r">>,
      <<"F", "l", "o", "a", "t">>, <<"M", "u", "l">>, <<"P", "o", "w">>,
      <<"R", "a", "t", "i", "o", "n", "a", "l">>,
      <<"S", "y", "m", "b", "o", "l">>, FactorialName }

SymbolNames == { <<"x">>, <<"y">>, <<"z">>, <<"t">> }
ConstantNames == { <<"p", "i">>, <<"e">> }

\* what a name holds, or the NameError
Lookup(id, S) ==
    IF id \in Keys(S) THEN Leaf(S.items[id])
    ELSE IF id \in SymbolNames THEN [k |-> "Symbol", name |-> id]
    ELSE IF id \in ConstantNames THEN [k |-> "Constant", name |-> id]
    ELSE IF id \in LOCALS_DICT \cup GLOBAL_DICT THEN [k |-> "Callable", name |-> id]
    ELSE Error("NameError")

HasError(args) == \E i \in 1..Len(args) : args[i].k = "Error"
FirstError(args) == args[Min({ i \in 1..Len(args) : args[i].k = "Error" })]

\* f(*args): the name is looked up first, then the arguments are evaluated,
\* then the call is made; d is the one callable of the vocabulary that this
\* module runs, the others stay applied
Invoke(f, callee, args) ==
    IF callee.k = "Error" THEN callee
    ELSE IF HasError(args) THEN FirstError(args)
    ELSE IF callee.k = "Callable" /\ f = <<"d">> THEN _d(args)
    ELSE IF callee.k \in {"Callable", "Symbol"} THEN Node("Apply", f, args)
    ELSE Error("TypeError")

\* -Integer(n) is an Integer
Negated(u) == [u EXCEPT !.neg = (~@ /\ u.digits # <<"0">>)]

Bound(u, args, S) ==
    IF u.k = "Apply" THEN Invoke(u.f, Lookup(u.f, S), args)
    ELSE IF HasError(args) THEN FirstError(args)
    ELSE IF u.k = "Neg" /\ args[1].k = "Integer" THEN Negated(args[1])
    ELSE [u EXCEPT !.args = args]

RECURSIVE Bind(_, _)
\* the tree with its names looked up and its calls made, or the first error
Bind(u, S) ==
    IF u.k = "Name" THEN Lookup(u.name, S)
    ELSE IF u.k = "Integer" THEN u
    ELSE Bound(u, [i \in 1..Len(u.args) |-> Bind(u.args[i], S)], S)

Evaluated(u, evaluate) ==
    IF u.k = "Error" THEN u
    ELSE IF evaluate THEN Eval(u)
    ELSE u

Built(r, S, evaluate) ==
    IF r.ok THEN Evaluated(Bind(r.e, S), evaluate) ELSE Error("SyntaxError")

\* parse_expr(expr, local_dict=..., transformations=..., evaluate=...): the
\* tree (evaluate=False) or the value (evaluate=True), or the error raised
parse_expr(expr, S, rlx, evaluate) == Built(ParseAll(Tokens(expr), rlx), S, evaluate)

(***************************************************************************)
(* Magnitude guardrails                                                    *)
(***************************************************************************)
MAX_INTEGER_POWER_EXP == 1000000
MAX_FACTORIAL_N == 100000

ErrFactorial == "factorial input too large to evaluate exactly (max n 100000)"
ErrPower == "integer power too large to evaluate exactly (max exponent 1000000)"
ErrReserved == "cannot assign reserved name"

\* pow(base, exp) for base in {-1, 0, 1}
PowUnit(base, exp) ==
    IF exp = 0 THEN 1
    ELSE IF base = 0 - 1 /\ exp % 2 = 1 THEN 0 - 1
    ELSE IF base = 0 THEN 0
    ELSE 1

\* exp * log(abs(base)) > log(cap + 1) is abs(base) ^ exp > cap + 1
_pow_capped(base, exp, cap) ==
    IF exp < 0 THEN None
    ELSE IF base \in {0 - 1, 0, 1} THEN PyInt(PowUnit(base, exp))
    ELSE IF exp = 0 THEN PyInt(1)
    ELSE IF SatPow(Abs(base), exp, cap + 1) > cap + 1 THEN PyInt(cap + 1)
    ELSE IF SatPow(Abs(base), exp, cap) > cap THEN PyInt(cap + 1)
    ELSE PyInt(SignedPow(base, exp, cap))

\* int(node) for an Integer, cut at cap + 1 and -(cap + 1)
IntegerCapped(node, cap) ==
    IF node.neg THEN 0 - DigitsCapped(node.digits, cap)
    ELSE DigitsCapped(node.digits, cap)

PowCappedOf(base_value, exp_value, cap) ==
    IF base_value = None \/ exp_value = None THEN None
    ELSE _pow_capped(base_value.v, exp_value.v, cap)

RECURSIVE _integer_value_capped(_, _)
_integer_value_capped(node, cap) ==
    IF node.k = "Integer" THEN PyInt(IntegerCapped(node, cap))
    ELSE IF node.k = "Pow"
    THEN PowCappedOf(_integer_value_capped(node.args[1], cap),
                     _integer_value_capped(node.args[2], cap), cap)
    ELSE None

ExceedsCap(exp_value) ==
    exp_value # None /\ Abs(exp_value.v) > MAX_INTEGER_POWER_EXP

_is_huge_integer_power(node) ==
    /\ node.k = "Pow"
    /\ node.args[1].k = "Integer"
    /\ ExceedsCap(_integer_value_capped(node.args[2], MAX_INTEGER_POWER_EXP))

\* (?<![A-Za-z0-9_])(\d+)\s*! with r the group (\d+)
FACTORIAL_LITERAL_PATTERN(s, i) ==
    IF At(s, i - 1) \notin WordChar /\ Lit(s, Ws(s, Digits(s, i)), <<"!">>) > 0
    THEN [e |-> Lit(s, Ws(s, Digits(s, i)), <<"!">>), r |-> Slice(s, i, Digits(s, i))]
    ELSE NoMatch

\* \s*(\d+)\s*\) from index p on, with r the group (\d+)
FactorialCallArgument(s, p) ==
    IF Lit(s, Ws(s, Digits(s, p)), <<")">>) > 0
    THEN [e |-> Lit(s, Ws(s, Digits(s, p)), <<")">>), r |-> Slice(s, p, Digits(s, p))]
    ELSE NoMatch

\* \bfactorial\s*\(\s*(\d+)\s*\)
FACTORIAL_CALL_LITERAL_PATTERN(s, i) ==
    FactorialCallArgument(s, Ws(s, Lit(s, Ws(s, Lit(s, Bnd(s, i), FactorialName)), <<"(">>)))

\* some match of the pattern holds a number over MAX_FACTORIAL_N
LiteralTooLarge(m) ==
    \E i \in DOMAIN m : m[i].e > 0 /\ DigitsCapped(m[i].r, MAX_FACTORIAL_N) > MAX_FACTORIAL_N

\* the message of the ValueError raised, or NoError
_validate_factorial_literals(expr) ==
    IF \/ LiteralTooLarge(Matches(expr, FACTORIAL_LITERAL_PATTERN))
       \/ LiteralTooLarge(Matches(expr, FACTORIAL_CALL_LITERAL_PATTERN))
    THEN ErrFactorial
    ELSE NoError

\* hasattr(parsed, "atoms"): a Python list has none
hasattr_atoms(tree) == tree.k # "List"

RECURSIVE atoms_Pow(_)
\* parsed.atoms(Pow).  An evaluated value inside the tree holds no power of
\* an integer to an integer, which evaluation has turned into a number.
atoms_Pow(u) ==
    IF u.k \notin Composite THEN {}
    ELSE (IF u.k = "Pow" THEN {u} ELSE {})
             \cup UNION { atoms_Pow(u.args[i]) : i \in 1..Len(u.args) }

huge_powers(tree) == { p \in atoms_Pow(tree) : _is_huge_integer_power(p) }

RECURSIVE xreplace(_)
\* parsed.xreplace(placeholders): equal powers share a placeholder
xreplace(u) ==
    IF _is_huge_integer_power(u) THEN [k |-> "Dummy", of |-> u]
    ELSE IF u.k \in Composite
    THEN [u EXCEPT !.args = [i \in 1..Len(u.args) |-> xreplace(u.args[i])]]
    ELSE u

\* some placeholder is a free symbol of the reduced value
PlaceholderLeft(reduced) == \E s \in free_symbols(reduced) : s.k = "Dummy"

Reduced(reduced) == IF PlaceholderLeft(reduced) THEN Error(ErrPower) ELSE reduced

\* None, the reduced value, or the error raised
_reduce_huge_integer_powers(tree) ==
    IF ~hasattr_atoms(tree) THEN None
    ELSE IF huge_powers(tree) = {} THEN None
    ELSE Reduced(simplify(Eval(xreplace(tree))))

_evaluate_parsed(value, simplify_flag) ==
    IF value.k = "list" THEN value
    ELSE IF simplify_flag THEN simplify(value)
    ELSE value

(***************************************************************************)
(* The normalizer on its own: normalize_expression is applied to a text    *)
(* and then to its own output.  A text is a left side, an operator and a   *)
(* right side of up to MaxRightParts parts.                                *)
(***************************************************************************)
NormLefts ==
    { <<>>, <<"a">>, <<"x">>, <<"s", "i", "n">>, <<"1">>, <<"y", "'">>,
      <<"d", "y", "/", "d", "x">>, <<"f", "(", "a">>,
      <<BS, "s", "i", "n", "x">>,
      <<BS, "f", "r", "a", "c", "{", "d", "y", "}", "{", "d", "x", "}">> }

NormOps ==
    { <<>>, <<"=">>, <<" ", "=", " ">>, <<"=", "=">>, <<"<", "=">>,
      <<">", "=">>, <<"!", "=">> }

NormRightParts ==
    { <<"1">>, <<"y">>, <<" ", "=", " ">>, <<"d", "z", "/", "d", "x">>,
      <<"2", "0", "y">>, <<")">> }

MaxRightParts == 2

RECURSIVE Concat(_)
Concat(parts) == IF parts = <<>> THEN <<>> ELSE Head(parts) \o Concat(Tail(parts))

NormRights ==
    UNION { { Concat(ps) : ps \in [1..n -> NormRightParts] } : n \in 0..MaxRightParts }

\* short Leibniz equations in dependents and variables other than y and x
OdeLefts ==
    { <<"d", "f", "/", "d", "t">>,
      <<"d", "u", "/", "d", "t">>,
      <<"d", " ", "u", " ", "/", " ", "d", " ", "t">>,
      <<"d", "y", "/", "d", "t">>,
      <<"d", "y", "2", "/", "d", "x">> }

OdeRights ==
    { <<"f">>,
      <<"2", "f">>,
      <<"u">>,
      <<"2", "u">>,
      <<"f", " ", "+", " ", "u">>,
      <<")", "u">>,
      <<"2", " ", "u">>,
      <<"u", "(", "t", ")">>,
      <<"u", "2">>,
      <<"a", "u">>,
      <<"y">>,
      <<"_", "y">>,
      <<"y", "2", " ", "+", " ", "2", "y">>,
      <<"(", "y", ")", "y">>,
      <<"y", " ", "(", "x", ")">> }

OdeInputs ==
    { l \o o \o r : l \in OdeLefts, o \in { <<"=">>, <<" ", "=", " ">> },
                     r \in OdeRights }

\* texts with bare-trig shorthand, repeated, wrapped, in braces, after a
\* Unicode minus, and names that only contain one
ShorthandInputs ==
    { <<"s", "i", "n", "x", " ", "+", " ", "s", "i", "n", "x">>,
      <<"s", "i", "n", "x", " ", "+", " ", "c", "o", "s", "y">>,
      <<"c", "o", "s", "y", "*", "s", "i", "n", "x", "*", "c", "o", "s", "y">>,
      <<"$", "s", "i", "n", "x", "$">>,
      <<"(", "t", "a", "n", "t", ")">>,
      <<"l", "n", "(", "t", "a", "n", "z", ")">>,
      <<"c", "o", "s", "x", "{", "s", "i", "n", "x", "}">>,
      <<"s", "i", "n", "x", UMinus, "c", "o", "s", "x">>,
      <<"a", "s", "i", "n", "x">>,
      <<"s", "i", "n", "x", "y">>,
      <<"s", "i", "n", "x", " ", "=", " ", "s", "i", "n", "y">>,
      <<BS, "s", "i", "n", "x", "+", "s", "i", "n", "x">>,
      <<"s", "i", "n", "x", "'">>,
      <<"t", "a", "n", "x", "2">> }

\* equations that hold a derivative and bare occurrences of its dependent
BackfillInputs ==
    { <<"d", "y", "/", "d", "t", " ", "+", " ", "y", " ", "=", " ", "0">>,
      <<"d", "y", "/", "d", "x", " ", "+", " ", "y", " ", "=", " ", "0">>,
      <<"d", "f", "/", "d", "t", " ", "+", " ", "2", "f", " ", "=", " ", "0">>,
      <<"d", "(", "y", ")", "/", "d", "t", " ", "+", " ", "y", " ", "=", " ", "0">>,
      <<"d", "y", "/", "d", "t", " ", "+", " ", "d", "f", "/", "d", "x", " ", "=", " ", "y">>,
      <<"y", "*", "d", "y", "/", "d", "t", " ", "=", " ", "t">>,
      <<"d", "(", "y", "(", "t", ")", ")", "/", "d", "t", " ", "-", " ", "y", " ", "=", " ", "0">>,
      <<"d", "y", "/", "d", "x", " ", "+", " ", "d", "y", "/", "d", "t", " ", "=", " ", "y">> }

NormalizeInputs ==
    { l \o o \o r : l \in NormLefts, o \in NormOps, r \in NormRights }
        \cup OdeInputs \cup ShorthandInputs \cup BackfillInputs

InitNormalize ==
    /\ CliIdle
    /\ expression \in NormalizeInputs
    /\ relaxed \in BOOLEAN
    /\ simplify_output = TRUE
    /\ pc = "normalize"
    /\ normalized = <<>>
    /\ error = NoError
    /\ result = NoValue
    /\ session_locals = None
    /\ stages = <<>>
    /\ calls = 0
    /\ stripped = <<>>
    /\ latexed = <<>>
    /\ shorthand = <<>>
    /\ staged = <<>>
    /\ previous = <<>>
    /\ match_name = <<>>
    /\ guarded_expr = <<>>
    /\ parsed_safe = NoValue
    /\ parsed_expr = NoValue
    /\ returned = NoValue

\* normalize_expression returns at the short Leibniz equation form
NormalizeOdeShortEq ==
    /\ pc = "normalize"
    /\ normalize_expression(expression, relaxed)
    /\ ODE_SHORT_EQ_PATTERN_match(shorthand').ok
    /\ stages' = <<"ode_short_eq">>
    /\ pc' = "normalized"
    /\ UNCHANGED <<cli_vars, expression, relaxed, simplify_output, error, result,
                   session_locals, calls, previous, evaluate_vars,
                   returned>>

\* normalize_expression runs through to the bare-equality stage
NormalizeThrough ==
    /\ pc = "normalize"
    /\ normalize_expression(expression, relaxed)
    /\ ~ODE_SHORT_EQ_PATTERN_match(shorthand').ok
    /\ stages' = <<"equality">>
    /\ pc' = "normalized"
    /\ UNCHANGED <<cli_vars, expression, relaxed, simplify_output, error, result,
                   session_locals, calls, previous, evaluate_vars,
                   returned>>

\* normalize_expression is applied to its own output
NormalizeAgain ==
    /\ pc = "normalized"
    /\ normalize_expression(normalized, relaxed)
    /\ previous' = normalized
    /\ pc' = "renormalized"
    /\ UNCHANGED <<cli_vars, expression, relaxed, simplify_output, error, result,
                   session_locals, stages, calls, evaluate_vars,
                   returned>>

\* diagnostics.relaxed_rewrite_messages on the text that was normalized
RelaxedRewriteMessages ==
    /\ pc = "normalized"
    /\ result' = [k |-> "messages",
                  items |-> relaxed_rewrite_messages(expression, relaxed)]
    /\ pc' = "explained"
    /\ UNCHANGED <<cli_vars, expression, relaxed, simplify_output, normalized, error,
                   session_locals, stages, calls, normalizer_vars, previous,
                   evaluate_vars, returned>>

NextNormalize ==
    \/ NormalizeOdeShortEq
    \/ NormalizeThrough
    \/ NormalizeAgain
    \/ RelaxedRewriteMessages

SpecNormalize == InitNormalize /\ [][NextNormalize]_vars

\* the positions of an "=" that is not part of "==", "<=", ">=" or "!="
C9_BareEquals(s) ==
    { i \in 1..Len(s) :
        /\ s[i] = "="
        /\ (i > 1 => s[i - 1] \notin {"<", ">", "=", "!"})
        /\ (i < Len(s) => s[i + 1] # "=") }

\* position i of s lies outside every parenthesis
C9_TopLevel(s, i) ==
    Cardinality({ k \in 1..(i - 1) : s[k] = "(" })
        = Cardinality({ k \in 1..(i - 1) : s[k] = ")" })

C9_Lhs(s, q) == Strip(SubSeq(s, 1, q - 1))
C9_Rhs(s, q) == Strip(SubSeq(s, q + 1, Len(s)))
C9_Wrap(s, q) ==
    <<"E", "q", "(">> \o C9_Lhs(s, q) \o <<",", " ">> \o C9_Rhs(s, q) \o <<")">>

\* C9 as stated: the equality stage wraps the text as Eq(lhs, rhs), split at
\* the first top-level bare "=", exactly when there is such an "=" and the
\* text is not an assignment to a name that is not reserved; otherwise it
\* leaves the text as it is.
C9_AsStated ==
    (pc = "normalized" /\ stages = <<"equality">>) =>
        LET tops == { i \in C9_BareEquals(staged) : C9_TopLevel(staged, i) }
            assign == ASSIGNMENT_PATTERN_match(staged)
        IN  normalized =
                IF tops # {} /\ ~(assign.ok /\ assign.name \notin LOCALS_DICT)
                THEN C9_Wrap(staged, Min(tops))
                ELSE staged

\* C9: the equality stage wraps the text as Eq(lhs, rhs), split at the first
\* bare "=" at any parenthesis depth, exactly when the text holds a bare "=",
\* does not match the assignment pattern (whatever the name, reserved or
\* not), and both sides of that "=" are non-empty once trimmed; otherwise it
\* leaves the text as it is.
C9_BareEqualityConversion ==
    (pc = "normalized" /\ stages = <<"equality">>) =>
        LET bare == C9_BareEquals(staged)
        IN  normalized =
                IF /\ bare # {}
                   /\ ~ASSIGNMENT_PATTERN_match(staged).ok
                   /\ C9_Lhs(staged, Min(bare)) # <<>>
                   /\ C9_Rhs(staged, Min(bare)) # <<>>
                THEN C9_Wrap(staged, Min(bare))
                ELSE staged

\* a text whose only bare "=" lies inside a parenthesis has been wrapped
C9_Witness ==
    /\ pc = "normalized"
    /\ stages = <<"equality">>
    /\ C9_BareEquals(staged) # {}
    /\ \A i \in C9_BareEquals(staged) : ~C9_TopLevel(staged, i)
    /\ normalized = C9_Wrap(staged, Min(C9_BareEquals(staged)))
    /\ normalized # staged

\* C10: normalizing a normalized text that has no strippable outer wrapper
\* left gives the same text, in strict and in relaxed mode.
C10_Idempotent ==
    (pc = "renormalized" /\ _strip_outer_wrappers(previous) = previous)
        => normalized = previous

\* the `*` put in front of a rewritten occurrence at index i
C11_Star(rhs, i, star) ==
    IF star /\ At(rhs, i - 1) \in (Letter \cup Digit \cup {")"}) THEN <<"*">>
    ELSE <<>>

RECURSIVE C11_RewriteFrom(_, _, _, _, _)
\* rhs from index i on, each bare occurrence of dep written as dep_expr, with
\* `*` in front of it when star is set and a digit, a letter or `)` comes
\* just before the occurrence
C11_RewriteFrom(rhs, i, dep, dep_expr, star) ==
    IF i > Len(rhs) THEN <<>>
    ELSE IF BareDependentAt(rhs, i, dep)
    THEN C11_Star(rhs, i, star) \o dep_expr
             \o C11_RewriteFrom(rhs, i + Len(dep), dep, dep_expr, star)
    ELSE <<rhs[i]>> \o C11_RewriteFrom(rhs, i + 1, dep, dep_expr, star)

\* Eq(d(<dep_expr>, <var>), <rhs>)
C11_Equation(dep_expr, var, rhs) ==
    <<"E", "q", "(", "d", "(">> \o dep_expr \o <<",", " ">> \o var
        \o <<")", ",", " ">> \o rhs \o <<")">>

\* the short Leibniz equation of the groups m, its right-hand side rewritten
C11_ShortEquation(m, dep_expr, star) ==
    C11_Equation(dep_expr, m.var, C11_RewriteFrom(m.rhs, 1, m.dep, dep_expr, star))

\* the text that reaches the backfill of the dependent y
C11_BeforeBackfill(n9) == Sub(Sub(n9, LeibnizCallPattern), LEIBNIZ_SIMPLE_PATTERN)

\* the backfill rewrites y in the text, and does not go on to rewrite f
C11_BackfillsY(text, star) ==
    /\ Search(text, Matches(text, EQUALITY_PATTERN))
    /\ Search(text, Matches(text, DerivativeOfYPattern))
    /\ OdeDependentF(C11_RewriteFrom(text, 1, <<"y">>, <<"y", "f", "(", "x", ")">>, star), star)
           = C11_RewriteFrom(text, 1, <<"y">>, <<"y", "f", "(", "x", ")">>, star)

\* C11: where the normalizer rewrites the bare occurrences of the dependent
\* name (the right-hand side of a short Leibniz equation, and the backfill of
\* y in an equation that holds a derivative of y), relaxed mode puts `*` in
\* front of a rewritten occurrence exactly when a digit, a letter or `)`
\* comes just before it, and strict mode rewrites the same occurrences and
\* puts no `*`.
C11_ImplicitMultiplication ==
    /\ (pc = "normalized" /\ stages = <<"ode_short_eq">>) =>
           normalized = C11_ShortEquation(
                            ODE_SHORT_EQ_PATTERN_match(shorthand),
                            _dependent_expr(ODE_SHORT_EQ_PATTERN_match(shorthand).dep,
                                            ODE_SHORT_EQ_PATTERN_match(shorthand).var),
                            relaxed)
    /\ (pc = "normalized" /\ stages = <<"equality">>
          /\ C11_BackfillsY(C11_BeforeBackfill(shorthand), relaxed)) =>
           staged = C11_RewriteFrom(C11_BeforeBackfill(shorthand), 1, <<"y">>,
                                    <<"y", "f", "(", "x", ")">>, relaxed)

\* relaxed mode has turned `dy/dx = 20y` into `Eq(d(yf(x), x), 20*yf(x))`
C11_Witness ==
    /\ pc = "normalized"
    /\ relaxed
    /\ expression = <<"d", "y", "/", "d", "x", " ", "=", " ", "2", "0", "y">>
    /\ normalized = <<"E", "q", "(", "d", "(", "y", "f", "(", "x", ")", ",", " ",
                      "x", ")", ",", " ", "2", "0", "*", "y", "f", "(", "x", ")", ")">>

\* dep(var), the function of the dependent y being named yf
C12_Application(dep, var) ==
    (IF dep = <<"y">> THEN <<"y", "f">> ELSE dep) \o <<"(">> \o var \o <<")">>

\* the dependent as the derivative holds it: an application for y and f, the
\* name itself for any other identifier
C12_Dependent(dep, var) ==
    IF dep \in { <<"y">>, <<"f">> } THEN C12_Application(dep, var) ELSE dep

\* C12 as stated: a short Leibniz equation d<dep>/d<var> = <rhs> normalizes,
\* for every dep and var, to Eq(d(dep(var), var), rhs') with every bare dep of
\* rhs replaced by dep(var).
C12_AsStated ==
    (pc = "normalized" /\ ODE_SHORT_EQ_PATTERN_match(shorthand).ok) =>
        normalized = C11_ShortEquation(
                         ODE_SHORT_EQ_PATTERN_match(shorthand),
                         C12_Application(ODE_SHORT_EQ_PATTERN_match(shorthand).dep,
                                         ODE_SHORT_EQ_PATTERN_match(shorthand).var),
                         relaxed)

\* C12: a short Leibniz equation d<dep>/d<var> = <rhs> normalizes to
\* Eq(d(D, var), rhs') where D is yf(var) for the dependent y, f(var) for the
\* dependent f and the bare name dep for any other identifier, and rhs' is
\* rhs with every bare dep replaced by D.
C12_ShortLeibnizEquation ==
    (pc = "normalized" /\ ODE_SHORT_EQ_PATTERN_match(shorthand).ok) =>
        normalized = C11_ShortEquation(
                         ODE_SHORT_EQ_PATTERN_match(shorthand),
                         C12_Dependent(ODE_SHORT_EQ_PATTERN_match(shorthand).dep,
                                       ODE_SHORT_EQ_PATTERN_match(shorthand).var),
                         relaxed)

\* `df/dt = 2f` has become `Eq(d(f(t), t), 2f(t))` in strict mode
C12_Witness ==
    /\ pc = "normalized"
    /\ ~relaxed
    /\ expression = <<"d", "f", "/", "d", "t", " ", "=", " ", "2", "f">>
    /\ normalized = <<"E", "q", "(", "d", "(", "f", "(", "t", ")", ",", " ", "t",
                      ")", ",", " ", "2", "f", "(", "t", ")", ")">>

\* what normalize_expression returns from the text n9 of its line 350 on
NormalizedFrom(n9, rlx) ==
    NormalizeReturn(n9,
                    IF ODE_SHORT_EQ_PATTERN_match(n9).ok THEN n9
                    ELSE BeforeEquality(n9, rlx),
                    ODE_SHORT_EQ_PATTERN_match(n9), rlx)

\* normalize_expression(expr, relaxed=rlx) as a value
NormalizedText(expr, rlx) ==
    Only({ NormalizedFrom(n9, rlx) :
           n9 \in { ShorthandStage(n5, rlx) :
           n5 \in { LatexStage(n2) :
           n2 \in { StripStage(expr) } } } })

C13_Prime == <<"y", "'">>
C13_Leibniz == <<"d", "y", "/", "d", "x">>
C13_Latex == <<BS, "f", "r", "a", "c", "{", "d", "y", "}", "{", "d", "x", "}">>

\* the text is y' = rhs, with a right-hand side that holds no `=`
C13_IsPrimeEquation(s) ==
    /\ PrefixAt(s, 1, C13_Prime)
    /\ At(s, SkipWs(s, 3)) = "="
    /\ Strip(SubSeq(s, SkipWs(s, 3) + 1, Len(s))) # <<>>
    /\ \A i \in (SkipWs(s, 3) + 1)..Len(s) : s[i] # "="

\* C13: for every right-hand side, `y' = rhs`, `dy/dx = rhs` and
\* `\frac{dy}{dx} = rhs` normalize to the same text, in relaxed and in strict
\* mode.
C13_NotationEquivalence ==
    (pc = "normalized" /\ C13_IsPrimeEquation(expression)) =>
        /\ normalized = NormalizedText(C13_Leibniz \o SubSeq(expression, 3, Len(expression)),
                                       relaxed)
        /\ normalized = NormalizedText(C13_Latex \o SubSeq(expression, 3, Len(expression)),
                                       relaxed)

\* the pairs of the bare-trig rewrites that normalize_expression applied:
\* the second value its call of _normalize_bare_function_shorthand returned,
\* on the text n5 that reached that stage
AppliedRewrites(n5, rlx) == _normalize_bare_function_shorthand(n5, rlx).rewrites

\* the text after the sub with the pairs applied, left to right
RECURSIVE C14_Apply(_, _, _)
C14_Apply(s, i, rewrites) ==
    IF rewrites = <<>> THEN Slice(s, i, Len(s) + 1)
    ELSE IF PrefixAt(s, i, Head(rewrites)[1]) /\ BARE_FUNC_ARG_PATTERN(s, i) # NoMatch
    THEN Head(rewrites)[2] \o C14_Apply(s, i + 4, Tail(rewrites))
    ELSE IF i > Len(s) THEN <<>>
    ELSE <<s[i]>> \o C14_Apply(s, i + 1, rewrites)

\* C14: relaxed_function_rewrites(e) is, in order, the (original, rewritten)
\* pairs of the bare-trig rewrites that normalize_expression(e, relaxed=True)
\* applies, the text on which both run the bare-trig stage being the same; in
\* strict mode normalize_expression applies no such rewrite and
\* relaxed_rewrite_messages returns the empty list
C14_RewritesAgree ==
    pc = "explained" =>
        /\ BeforeBareFunction(expression) = latexed
        /\ relaxed =>
              /\ relaxed_function_rewrites(expression) = AppliedRewrites(latexed, TRUE)
              /\ _normalize_bare_function_shorthand(latexed, TRUE).text
                    = C14_Apply(latexed, 1, relaxed_function_rewrites(expression))
              /\ result.items
                    = RewriteMessagesFrom(AppliedRewrites(latexed, TRUE), 1)
        /\ ~relaxed =>
              /\ AppliedRewrites(latexed, FALSE) = <<>>
              /\ _normalize_bare_function_shorthand(latexed, FALSE).text = latexed
              /\ shorthand = ShorthandStage(latexed, FALSE)
              /\ result.items = <<>>

\* "sinx + cosy" in relaxed mode: two rewrites, two messages
C14_Witness ==
    /\ pc = "explained"
    /\ relaxed
    /\ expression = <<"s", "i", "n", "x", " ", "+", " ", "c", "o", "s", "y">>
    /\ AppliedRewrites(latexed, relaxed)
         = << <<<<"s", "i", "n", "x">>, <<"s", "i", "n", "(", "x", ")">>>>,
              <<<<"c", "o", "s", "y">>, <<"c", "o", "s", "(", "y", ")">>>> >>
    /\ Len(result.items) = 2

(***************************************************************************)
(* The guarded evaluator: evaluate, one action per stage of a call.  The   *)
(* calls of a run share session_locals, a dict or None.                    *)
(***************************************************************************)
\* calls of evaluate in a run
MaxCalls == 3

\* the texts of the calls
EvaluateInputs ==
    { <<"1", " ", "+", " ", "1">>,
      <<"a", " ", "=", " ", "2">>,
      <<"a", " ", "+", " ", "1">>,
      <<"a", "n", "s", " ", "+", " ", "1">>,
      <<"a", " ", "=", " ", "a", " ", "+", " ", "1">>,
      <<"b", " ", "=", " ", "a", "n", "s">>,
      <<"s", "i", "n", " ", "=", " ", "2">>,
      <<"x", " ", "=", " ", "1", "0", "0", "0", "0", "1", "!">>,
      <<"x", " ", "=", " ", "2", " ", "+">>,
      <<"1", "0", "0", "0", "0", "1", "!">>,
      <<"1", "0", "0", "0", "0", "0", "!">>,
      <<"4", "!">>,
      <<"f", "a", "c", "t", "o", "r", "i", "a", "l", "(", "1", "0", "0",
        "0", "0", "1", ")">>,
      <<"f", "a", "c", "t", "o", "r", "i", "a", "l", " ", "(", "3", ")">>,
      <<"1", "0", "0", "0", "0", "1", " ", "!", "=", " ", "1">>,
      <<"3", " ", "!", "=", " ", "1">>,
      <<"1", "0", "^", "1", "0", "0", "0", "0", "0", "1", " ", "+", " ",
        "1">>,
      <<"1", "0", "^", "1", "0", "0", "0", "0", "0", "1", " ", "+", " ",
        "1", " ", "-", " ", "1", "0", "^", "1", "0", "0", "0", "0", "0",
        "1">>,
      <<"1", "0", "^", "1", "0", "0", "0", "0", "0", "0">>,
      <<"1", "0", "^", "-", "1", "0", "0", "0", "0", "0", "1">>,
      <<"[", "1", "0", "^", "1", "0", "0", "0", "0", "0", "1", "]">>,
      <<"[", "1", ",", " ", "a", "]">>,
      <<"b", " ", "=", " ", "1", "0", "^", "1", "0", "0", "0", "0", "0",
        "1">>,
      <<"a", " ", "=", " ", "1", "0", "0", "0", "0", "1", "!", " ", "+",
        " ", "1", "0", "^", "1", "0", "0", "0", "0", "0", "1">>,
      <<"2", " ", "+">>,
      <<"q">>,
      <<"d", "(", "1", ")">>,
      <<"d", "(", "x", " ", "+", " ", "x", ")">>,
      <<"s", "i", "n", "(", "x", ")", "^", "2", " ", "+", " ", "c", "o",
        "s", "(", "x", ")", "^", "2">>,
      <<"s", "i", "n", "(", "x", ")", "^", "2", " ", "+", " ", "c", "o",
        "s", "(", "x", ")", "^", "2", " ", "+", " ", "1", "0", "^", "1",
        "0", "0", "0", "0", "0", "1", " ", "-", " ", "1", "0", "^", "1",
        "0", "0", "0", "0", "0", "1">>,
      <<"2", "a">>,
      <<"a", ";">>,
      <<" ">>,
      <<"$", " ", "a", " ", "=", " ", "3", " ", "$">>,
      <<"1", " ", "=", " ", "x">>,
      <<"2", "^", "(", "2", "^", "2", "0", ")", " ", "+", " ", "1", " ",
        "-", " ", "2", "^", "(", "2", "^", "2", "0", ")">>,
      <<"5", "^", "(", "3", "^", "(", "(", "-", "2", ")", "^", "2", "1",
        ")", ")">> }

StageOrder ==
    <<"validation", "normalization", "reserved_name_check", "factorial_scan",
      "safe_parse", "huge_power_reduction", "evaluating_parse",
      "simplification", "session_write">>

Init ==
    /\ CliIdle
    /\ expression = <<>>
    /\ relaxed = FALSE
    /\ simplify_output = TRUE
    /\ pc = "idle"
    /\ normalized = <<>>
    /\ error = NoError
    /\ result = NoValue
    /\ session_locals \in {None, Dict(EmptyItems)}
    /\ stages = <<>>
    /\ calls = 0
    /\ stripped = <<>>
    /\ latexed = <<>>
    /\ shorthand = <<>>
    /\ staged = <<>>
    /\ previous = <<>>
    /\ match_name = <<>>
    /\ guarded_expr = <<>>
    /\ parsed_safe = NoValue
    /\ parsed_expr = NoValue
    /\ returned = NoValue

\* evaluate(expression, relaxed, session_locals, simplify_output) is called
Call ==
    /\ pc \in {"idle", "returned", "raised"}
    /\ calls < MaxCalls
    /\ expression' \in EvaluateInputs
    /\ relaxed' \in BOOLEAN
    /\ simplify_output' \in BOOLEAN
    /\ pc' = "validate"
    /\ calls' = calls + 1
    /\ normalized' = <<>>
    /\ error' = NoError
    /\ result' = NoValue
    /\ stages' = <<>>
    /\ stripped' = <<>>
    /\ latexed' = <<>>
    /\ shorthand' = <<>>
    /\ staged' = <<>>
    /\ match_name' = <<>>
    /\ guarded_expr' = <<>>
    /\ parsed_safe' = NoValue
    /\ parsed_expr' = NoValue
    /\ UNCHANGED <<cli_vars, session_locals, previous, returned>>

\* what a step of a call leaves alone, whatever the step
call_frame == <<expression, relaxed, simplify_output, calls, previous>>

ValidationRaises ==
    /\ pc = "validate"
    /\ _validate_expression(expression) # NoError
    /\ error' = _validate_expression(expression)
    /\ stages' = Append(stages, "validation")
    /\ pc' = "raised"
    /\ UNCHANGED <<cli_vars, call_frame, normalized, normalizer_vars, result,
                   session_locals, evaluate_vars, returned>>

ValidationPasses ==
    /\ pc = "validate"
    /\ _validate_expression(expression) = NoError
    /\ stages' = Append(stages, "validation")
    /\ pc' = "normalize"
    /\ UNCHANGED <<cli_vars, call_frame, normalized, normalizer_vars, error, result,
                   session_locals, evaluate_vars, returned>>

Mut_AfterNormalization_no_check(match) == "factorial_scan"

\* an assignment goes through the reserved-name check
AfterNormalization(match) ==
    IF match.ok THEN "reserved_name_check" ELSE "factorial_scan"

\* the text handed to _parse_with_guardrails
GuardedText(match, text) == IF match.ok THEN match.rhs ELSE text

\* normalized = normalize_expression(...); match = ASSIGNMENT_PATTERN.match(normalized)
Normalization ==
    /\ pc = "normalize"
    /\ normalize_expression(expression, relaxed)
    /\ match_name' = ASSIGNMENT_PATTERN_match(normalized').name
    /\ guarded_expr' = GuardedText(ASSIGNMENT_PATTERN_match(normalized'), normalized')
    /\ stages' = Append(stages, "normalization")
    /\ pc' = AfterNormalization(ASSIGNMENT_PATTERN_match(normalized'))
    /\ UNCHANGED <<cli_vars, call_frame, error, result, session_locals, parsed_safe,
                   parsed_expr, returned>>

Mut_IsReserved_never(id) == FALSE

\* name in LOCALS_DICT
IsReserved(id) == id \in LOCALS_DICT

ReservedNameRaises ==
    /\ pc = "reserved_name_check"
    /\ IsReserved(match_name)
    /\ error' = ErrReserved
    /\ stages' = Append(stages, "reserved_name_check")
    /\ pc' = "raised"
    /\ UNCHANGED <<cli_vars, call_frame, normalized, normalizer_vars, result,
                   session_locals, evaluate_vars, returned>>

ReservedNamePasses ==
    /\ pc = "reserved_name_check"
    /\ ~IsReserved(match_name)
    /\ stages' = Append(stages, "reserved_name_check")
    /\ pc' = "factorial_scan"
    /\ UNCHANGED <<cli_vars, call_frame, normalized, normalizer_vars, error, result,
                   session_locals, evaluate_vars, returned>>

\* _parse_with_guardrails: _validate_factorial_literals(expr)
FactorialScanRaises ==
    /\ pc = "factorial_scan"
    /\ _validate_factorial_literals(guarded_expr) # NoError
    /\ error' = _validate_factorial_literals(guarded_expr)
    /\ stages' = Append(stages, "factorial_scan")
    /\ pc' = "raised"
    /\ UNCHANGED <<cli_vars, call_frame, normalized, normalizer_vars, result,
                   session_locals, evaluate_vars, returned>>

FactorialScanPasses ==
    /\ pc = "factorial_scan"
    /\ _validate_factorial_literals(guarded_expr) = NoError
    /\ stages' = Append(stages, "factorial_scan")
    /\ pc' = "safe_parse"
    /\ UNCHANGED <<cli_vars, call_frame, normalized, normalizer_vars, error, result,
                   session_locals, evaluate_vars, returned>>

\* _parse_with_guardrails: parsed_safe = parse_expr(..., evaluate=False)
SafeParseRaises ==
    /\ pc = "safe_parse"
    /\ parse_expr(guarded_expr, session_locals, relaxed, FALSE).k = "Error"
    /\ error' = parse_expr(guarded_expr, session_locals, relaxed, FALSE).err
    /\ stages' = Append(stages, "safe_parse")
    /\ pc' = "raised"
    /\ UNCHANGED <<cli_vars, call_frame, normalized, normalizer_vars, result,
                   session_locals, evaluate_vars, returned>>

SafeParseReturns ==
    /\ pc = "safe_parse"
    /\ parse_expr(guarded_expr, session_locals, relaxed, FALSE).k # "Error"
    /\ parsed_safe' = parse_expr(guarded_expr, session_locals, relaxed, FALSE)
    /\ stages' = Append(stages, "safe_parse")
    /\ pc' = "huge_power_reduction"
    /\ UNCHANGED <<cli_vars, call_frame, normalized, normalizer_vars, error, result,
                   session_locals, match_name, guarded_expr, parsed_expr,
                   returned>>

Mut_ReductionRaises_after_write ==
    /\ pc = "huge_power_reduction"
    /\ _reduce_huge_integer_powers(parsed_safe).k = "Error"
    /\ error' = _reduce_huge_integer_powers(parsed_safe).err
    /\ stages' = Append(stages, "huge_power_reduction")
    /\ pc' = "raised"
    /\ session_locals' = IF session_locals = None THEN None
                         ELSE Bindings(session_locals, ANS, Eval(parsed_safe))
    /\ UNCHANGED <<cli_vars, call_frame, normalized, normalizer_vars, result,
                   evaluate_vars, returned>>

\* _reduce_huge_integer_powers raises: a placeholder is left
ReductionRaises ==
    /\ pc = "huge_power_reduction"
    /\ _reduce_huge_integer_powers(parsed_safe).k = "Error"
    /\ error' = _reduce_huge_integer_powers(parsed_safe).err
    /\ stages' = Append(stages, "huge_power_reduction")
    /\ pc' = "raised"
    /\ UNCHANGED <<cli_vars, call_frame, normalized, normalizer_vars, result,
                   session_locals, evaluate_vars, returned>>

\* _reduce_huge_integer_powers returns None: the text is parsed again
ReductionNone ==
    /\ pc = "huge_power_reduction"
    /\ _reduce_huge_integer_powers(parsed_safe) = None
    /\ stages' = Append(stages, "huge_power_reduction")
    /\ pc' = "evaluating_parse"
    /\ UNCHANGED <<cli_vars, call_frame, normalized, normalizer_vars, error, result,
                   session_locals, evaluate_vars, returned>>

\* _reduce_huge_integer_powers returns the reduced value, which
\* _parse_with_guardrails returns
ReductionReturns ==
    /\ pc = "huge_power_reduction"
    /\ _reduce_huge_integer_powers(parsed_safe).k \notin {"None", "Error"}
    /\ parsed_expr' = _reduce_huge_integer_powers(parsed_safe)
    /\ stages' = Append(stages, "huge_power_reduction")
    /\ pc' = "evaluate_parsed"
    /\ UNCHANGED <<cli_vars, call_frame, normalized, normalizer_vars, error, result,
                   session_locals, match_name, guarded_expr, parsed_safe,
                   returned>>

\* _parse_with_guardrails: return parse_expr(..., evaluate=True), or the
\* error it raises
EvaluatingParse ==
    /\ pc = "evaluating_parse"
    /\ parsed_expr' = IF parse_expr(guarded_expr, session_locals, relaxed, TRUE).k = "Error"
                      THEN NoValue
                      ELSE parse_expr(guarded_expr, session_locals, relaxed, TRUE)
    /\ error' = IF parse_expr(guarded_expr, session_locals, relaxed, TRUE).k = "Error"
                THEN parse_expr(guarded_expr, session_locals, relaxed, TRUE).err
                ELSE NoError
    /\ stages' = Append(stages, "evaluating_parse")
    /\ pc' = IF parse_expr(guarded_expr, session_locals, relaxed, TRUE).k = "Error"
             THEN "raised" ELSE "evaluate_parsed"
    /\ UNCHANGED <<cli_vars, call_frame, normalized, normalizer_vars, result,
                   session_locals, match_name, guarded_expr, parsed_safe,
                   returned>>

\* simplify is called on all but lists, when simplify_output is set
Simplifies(value, simplify_flag) == simplify_flag /\ value.k # "list"

\* result = _evaluate_parsed(parsed, simplify_output=simplify_output)
EvaluateParsed ==
    /\ pc = "evaluate_parsed"
    /\ result' = _evaluate_parsed(parsed_expr, simplify_output)
    /\ stages' = IF Simplifies(parsed_expr, simplify_output)
                 THEN Append(stages, "simplification") ELSE stages
    /\ pc' = "session_write"
    /\ UNCHANGED <<cli_vars, call_frame, normalized, normalizer_vars, error,
                   session_locals, evaluate_vars, returned>>

Mut_SessionWrite_name_only(S, id, value) ==
    IF id # <<>> THEN Bindings(S, id, value) ELSE Bindings(S, ANS, value)

\* session_locals[name] = result (an assignment); session_locals["ans"] = result
SessionWrite(S, id, value) ==
    IF id # <<>> THEN Bindings(Bindings(S, id, value), ANS, value)
    ELSE Bindings(S, ANS, value)

\* if session_locals is not None: ...; return result
Return ==
    /\ pc = "session_write"
    /\ session_locals' = IF session_locals = None THEN None
                         ELSE SessionWrite(session_locals, match_name, result)
    /\ stages' = IF session_locals = None THEN stages
                 ELSE Append(stages, "session_write")
    /\ returned' = result
    /\ pc' = "returned"
    /\ UNCHANGED <<cli_vars, call_frame, normalized, normalizer_vars, error, result,
                   evaluate_vars>>

Next ==
    \/ Call
    \/ ValidationRaises
    \/ ValidationPasses
    \/ Normalization
    \/ ReservedNameRaises
    \/ ReservedNamePasses
    \/ FactorialScanRaises
    \/ FactorialScanPasses
    \/ SafeParseRaises
    \/ SafeParseReturns
    \/ ReductionRaises
    \/ ReductionNone
    \/ ReductionReturns
    \/ EvaluatingParse
    \/ EvaluateParsed
    \/ Return

Spec == Init /\ [][Next]_vars

\* C1: a call of evaluate that raises leaves the session with the keys and
\* values it had: the session changes in no step but the one that returns.
C1_SessionUnchangedOnFailure ==
    [][pc' # "returned" => session_locals' = session_locals]_vars

\* an assignment raised the power error in a session that holds bindings
C1_Witness ==
    /\ pc = "raised"
    /\ error = ErrPower
    /\ match_name # <<>>
    /\ Keys(session_locals) # {}

\* C2: in a session, ans holds the value returned by the most recent call
\* that returned, whatever calls raised since; and when an assignment
\* returns, its name holds that value too.
C2_AnsIsLastResult ==
    (session_locals # None /\ returned # NoValue) =>
        /\ ANS \in Keys(session_locals)
        /\ session_locals.items[ANS] = returned
        /\ (pc = "returned" /\ match_name # <<>>) =>
               /\ match_name \in Keys(session_locals)
               /\ session_locals.items[match_name] = returned

\* a call has raised after an assignment returned, and ans and the name
\* still hold the value the assignment returned
C2_Witness ==
    /\ pc = "raised"
    /\ returned # NoValue
    /\ Cardinality(Keys(session_locals)) >= 2
    /\ session_locals.items[ANS] = returned

\* C3: when the normalized text is an assignment to a reserved name, the
\* call raises the reserved-name error with neither parse done, and the
\* session is left as it was.
C3_ReservedNameRejected ==
    /\ []((pc \in {"raised", "returned"}
             /\ ASSIGNMENT_PATTERN_match(normalized).ok
             /\ ASSIGNMENT_PATTERN_match(normalized).name \in LOCALS_DICT)
          => /\ pc = "raised"
             /\ error = ErrReserved
             /\ stages = <<"validation", "normalization", "reserved_name_check">>
             /\ parsed_safe = NoValue
             /\ parsed_expr = NoValue)
    /\ [][(ASSIGNMENT_PATTERN_match(normalized').ok
             /\ ASSIGNMENT_PATTERN_match(normalized').name \in LOCALS_DICT)
          => session_locals' = session_locals]_vars

\* an assignment to a reserved name whose right-hand side no parser accepts
\* was rejected for the name, in a session that holds bindings
C3_Witness ==
    /\ pc = "raised"
    /\ error = ErrReserved
    /\ match_name \in LOCALS_DICT
    /\ parse_expr(guarded_expr, session_locals, relaxed, FALSE).k = "Error"
    /\ Keys(session_locals) # {}

\* the index of a stage in StageOrder
StageIndex(stage) == CHOOSE i \in 1..Len(StageOrder) : StageOrder[i] = stage

\* the error of the first guard that the call's texts violate, NoError when
\* they violate none of validation, reserved name, factorial literal
C5_FirstGuardError ==
    IF Strip(expression) = <<>> THEN ErrEmpty
    ELSE IF Len(expression) > MAX_EXPRESSION_CHARS THEN ErrTooLong
    ELSE IF BLOCKED_PATTERN_search(expression) THEN ErrBlocked
    ELSE IF match_name \in LOCALS_DICT THEN ErrReserved
    ELSE _validate_factorial_literals(guarded_expr)

\* C5: the stages of a call occur in the order validation, normalization,
\* reserved-name check, factorial scan, non-evaluating parse, huge-power
\* reduction, evaluating parse, simplification, session write; the stage
\* that raises is the last one; no parse is made of a text that failed
\* validation; and a call whose input violates several guards raises the
\* error of the first one.
C5_StageOrder ==
    /\ \A i, j \in 1..Len(stages) :
           i < j => StageIndex(stages[i]) < StageIndex(stages[j])
    /\ pc = "raised" =>
           /\ error # NoError
           /\ result = NoValue
           /\ "session_write" \notin { stages[i] : i \in 1..Len(stages) }
    /\ (pc \in {"raised", "returned"} /\ _validate_expression(expression) # NoError) =>
           stages = <<"validation">> /\ parsed_safe = NoValue
    /\ (pc \in {"raised", "returned"} /\ C5_FirstGuardError # NoError) =>
           pc = "raised" /\ error = C5_FirstGuardError
    /\ pc = "returned" =>
           /\ error = NoError
           /\ \A i \in {1, 2, 4, 5, 6} :
                  StageOrder[i] \in { stages[j] : j \in 1..Len(stages) }

\* an assignment to a reserved name, with a factorial literal over the limit
\* on its right, raised the reserved-name error
C5_Witness ==
    /\ pc = "raised"
    /\ error = ErrReserved
    /\ _validate_factorial_literals(guarded_expr) = ErrFactorial

\* some power of the tree, at any depth, is huge
C6_HoldsHugePower(tree) == \E p \in atoms_Pow(tree) : _is_huge_integer_power(p)

\* C6: when the non-evaluating parse holds a huge integer power, the text is
\* not parsed with evaluation: the call raises the power error when a
\* placeholder is left and otherwise returns the reduced value; and the
\* text is parsed with evaluation when no huge power is found.
C6_MagnitudeGuardrail ==
    (pc \in {"raised", "returned"} /\ parsed_safe # NoValue) =>
        IF C6_HoldsHugePower(parsed_safe)
        THEN /\ "evaluating_parse" \notin { stages[i] : i \in 1..Len(stages) }
             /\ \/ pc = "raised" /\ error = ErrPower
                \/ pc = "returned" /\ ~PlaceholderLeft(parsed_expr)
        ELSE "evaluating_parse" \in { stages[i] : i \in 1..Len(stages) }

\* the numbers N of the literal factorials N! and factorial(N) of a text,
\* by its tokens, cut at MAX_FACTORIAL_N + 1
C8_FactorialLiterals(ts) ==
    { DigitsCapped(ts[i], MAX_FACTORIAL_N) :
        i \in { j \in 1..Len(ts) :
                  /\ IsNum(ts[j])
                  /\ \/ Tok(ts, j + 1) = <<"!">>
                     \/ /\ j > 2
                        /\ ts[j - 2] = FactorialName
                        /\ ts[j - 1] = <<"(">>
                        /\ Tok(ts, j + 1) = <<")">> } }

\* C8: a call whose text reaches the factorial scan raises the factorial
\* error, with no parse made, when the text holds a literal N! or
\* factorial(N) with N over 100000, and in no other case: N = 100000 does
\* not raise it, and a text without a literal factorial does not raise it.
C8_FactorialGuard ==
    (pc \in {"raised", "returned"}
       /\ "factorial_scan" \in { stages[i] : i \in 1..Len(stages) }) =>
        IF \E n \in C8_FactorialLiterals(Tokens(guarded_expr)) : n > 100000
        THEN pc = "raised" /\ error = ErrFactorial /\ parsed_safe = NoValue
        ELSE error # ErrFactorial

(***************************************************************************)
(* The huge-power test on its own: _is_huge_integer_power is applied to    *)
(* powers whose exponent is a literal, a symbol or a tower of powers, as   *)
(* the non-evaluating parse builds them.                                   *)
(***************************************************************************)
\* nesting of the powers in an exponent
MaxTowerDepth == 2

TowerLeaves ==
    { IntegerNode(n) : n \in { 0, 1, 0 - 1, 2, 0 - 2, 3, 21,
                               MAX_INTEGER_POWER_EXP, 0 - MAX_INTEGER_POWER_EXP,
                               MAX_INTEGER_POWER_EXP + 1,
                               0 - (MAX_INTEGER_POWER_EXP + 1) } }
    \cup { [k |-> "Integer", neg |-> FALSE,
            digits |-> <<"1", "0", "0", "0", "0", "0", "0", "0", "0", "0", "0">>],
           [k |-> "Symbol", name |-> <<"x">>] }

RECURSIVE Towers(_)
\* the leaves and the powers leaf ^ tower, to the depth n
Towers(n) ==
    IF n = 0 THEN TowerLeaves
    ELSE TowerLeaves \cup
         { Node("Pow", <<"^">>, <<b, e>>) : b \in TowerLeaves, e \in Towers(n - 1) }

PowBases ==
    { IntegerNode(5), [k |-> "Symbol", name |-> <<"x">>],
      Node("Pow", <<"^">>, <<IntegerNode(2), IntegerNode(3)>>) }

PowNodes ==
    { Node("Pow", <<"^">>, <<b, e>>) : b \in PowBases, e \in Towers(MaxTowerDepth) }

InitPow ==
    /\ CliIdle
    /\ expression = <<>>
    /\ relaxed = FALSE
    /\ simplify_output = TRUE
    /\ pc = "classify"
    /\ normalized = <<>>
    /\ error = NoError
    /\ result = NoValue
    /\ session_locals = None
    /\ stages = <<>>
    /\ calls = 0
    /\ stripped = <<>>
    /\ latexed = <<>>
    /\ shorthand = <<>>
    /\ staged = <<>>
    /\ previous = <<>>
    /\ match_name = <<>>
    /\ guarded_expr = <<>>
    /\ parsed_safe \in PowNodes
    /\ parsed_expr = NoValue
    /\ returned = NoValue

\* _is_huge_integer_power(p) for a power p of the parsed tree
Classify ==
    /\ pc = "classify"
    /\ result' = [k |-> "bool", val |-> _is_huge_integer_power(parsed_safe)]
    /\ pc' = "classified"
    /\ UNCHANGED <<cli_vars, call_frame, normalized, normalizer_vars, error, session_locals,
                   stages, evaluate_vars, returned>>

NextPow == Classify

SpecPow == InitPow /\ [][NextPow]_vars

RECURSIVE C7_Magnitude(_)
RECURSIVE C7_Odd(_)
RECURSIVE C7_Negative(_)
RECURSIVE C7_IsTower(_)
\* the absolute value of a tower, cut at MAX_INTEGER_POWER_EXP + 1
C7_Magnitude(u) ==
    IF u.k = "Integer" THEN DigitsCapped(u.digits, MAX_INTEGER_POWER_EXP)
    ELSE SatPow(C7_Magnitude(u.args[1]), C7_Magnitude(u.args[2]),
                MAX_INTEGER_POWER_EXP)

\* the value of a tower is odd
C7_Odd(u) ==
    IF u.k = "Integer" THEN DigitVal(u.digits[Len(u.digits)]) % 2 = 1
    ELSE C7_Magnitude(u.args[2]) = 0 \/ C7_Odd(u.args[1])

\* the value of a tower is negative
C7_Negative(u) ==
    IF u.k = "Integer" THEN u.neg
    ELSE C7_Negative(u.args[1]) /\ C7_Odd(u.args[2])

\* an integer literal, or a tower of integer powers with non-negative
\* exponents
C7_IsTower(u) ==
    \/ u.k = "Integer"
    \/ /\ u.k = "Pow"
       /\ C7_IsTower(u.args[1])
       /\ C7_IsTower(u.args[2])
       /\ ~C7_Negative(u.args[2])

\* C7: a power is classed as huge exactly when its base is an integer and
\* its exponent is an integer literal, or a tower of integer powers with
\* non-negative exponents, whose absolute value exceeds 1,000,000.
C7_AsStated ==
    pc = "classified" =>
        (result.val <=>
            /\ parsed_safe.args[1].k = "Integer"
            /\ C7_IsTower(parsed_safe.args[2])
            /\ C7_Magnitude(parsed_safe.args[2]) > 1000000)

(***************************************************************************)
(* The ODE alias (src/src/calc/ode.py): split_top_level_commas             *)
(***************************************************************************)
Mut_DepthAfter_unclamped(ch, depth) ==
    IF ch = "(" THEN depth + 1
    ELSE IF ch = ")" THEN depth - 1
    ELSE depth

\* lines 13-16: the depth once ch is read
DepthAfter(ch, depth) ==
    IF ch = "(" THEN depth + 1
    ELSE IF ch = ")" THEN Max({0, depth - 1})
    ELSE depth

\* lines 18-20 and 24-26: the piece is kept when it is not empty
WithPiece(parts, current) ==
    IF Strip(current) # <<>> THEN Append(parts, Strip(current)) ELSE parts

\* the loop of lines 12-23 from the i-th character on, and lines 24-27
RECURSIVE SplitLoop(_, _, _, _, _)
SplitLoop(text, i, parts, current, depth) ==
    IF i > Len(text) THEN WithPiece(parts, current)
    ELSE IF text[i] = "," /\ DepthAfter(text[i], depth) = 0
    THEN SplitLoop(text, i + 1, WithPiece(parts, current), <<>>,
                   DepthAfter(text[i], depth))
    ELSE SplitLoop(text, i + 1, parts, Append(current, text[i]),
                   DepthAfter(text[i], depth))

split_top_level_commas(text) == SplitLoop(text, 1, <<>>, <<>>, 0)

\* the texts that are split: every text of at most MaxSplitLen characters
MaxSplitLen == 5

SplitAlphabet == { "a", ",", "(", ")", " " }

SplitInputs == UNION { [1..n -> SplitAlphabet] : n \in 0..MaxSplitLen }

InitSplit ==
    /\ expression = <<>>
    /\ relaxed = TRUE
    /\ simplify_output = TRUE
    /\ pc = "split"
    /\ normalized = <<>>
    /\ error = NoError
    /\ result = NoValue
    /\ session_locals = None
    /\ stages = <<>>
    /\ calls = 0
    /\ stripped = <<>>
    /\ latexed = <<>>
    /\ shorthand = <<>>
    /\ staged = <<>>
    /\ previous = <<>>
    /\ match_name = <<>>
    /\ guarded_expr = <<>>
    /\ parsed_safe = NoValue
    /\ parsed_expr = NoValue
    /\ returned = NoValue
    /\ body \in SplitInputs
    /\ pieces = <<>>
    /\ AliasIdle
    /\ ReplIdle

SplitTopLevelCommas ==
    /\ pc = "split"
    /\ pieces' = split_top_level_commas(body)
    /\ pc' = "pieces"
    /\ UNCHANGED <<expression, relaxed, simplify_output, normalized, error,
                   result, session_locals, stages, calls, normalizer_vars,
                   previous, evaluate_vars, returned, body, solve_vars,
                   repl_vars>>

NextSplit == SplitTopLevelCommas

SpecSplit == InitSplit /\ [][NextSplit]_vars

\* the number of "(" not yet closed in text[1..i], a ")" that closes nothing
\* being ignored
RECURSIVE C15_Depth(_, _)
C15_Depth(text, i) ==
    IF i = 0 THEN 0
    ELSE IF text[i] = "(" THEN C15_Depth(text, i - 1) + 1
    ELSE IF text[i] = ")" /\ C15_Depth(text, i - 1) > 0
    THEN C15_Depth(text, i - 1) - 1
    ELSE C15_Depth(text, i - 1)

\* the positions of the commas at parenthesis depth 0
C15_Cuts(text) ==
    { i \in 1..Len(text) : text[i] = "," /\ C15_Depth(text, i - 1) = 0 }

\* the trimmed segment that starts after position c
C15_Segment(text, c) ==
    Strip(SubSeq(text, c + 1,
                 Min({ d \in C15_Cuts(text) \cup {Len(text) + 1} : d > c }) - 1))

\* the non-empty trimmed segments that start after position c, in order
RECURSIVE C15_SegmentsFrom(_, _)
C15_SegmentsFrom(text, c) ==
    (IF C15_Segment(text, c) # <<>> THEN <<C15_Segment(text, c)>> ELSE <<>>)
        \o (IF \E d \in C15_Cuts(text) : d > c
            THEN C15_SegmentsFrom(text, Min({ d \in C15_Cuts(text) : d > c }))
            ELSE <<>>)

\* C15: split_top_level_commas returns, in their order, exactly the non-empty
\* whitespace-trimmed segments of the text between the commas at parenthesis
\* depth 0: a comma inside parentheses never splits, no piece is empty, and an
\* unmatched ")" does not make the depth negative
C15_SplitTopLevel ==
    pc = "pieces" =>
        /\ pieces = C15_SegmentsFrom(body, 0)
        /\ \A j \in 1..Len(pieces) :
              /\ pieces[j] # <<>>
              /\ Strip(pieces[j]) = pieces[j]
              /\ C15_Cuts(pieces[j]) = {}
        /\ Len(pieces) <= Cardinality(C15_Cuts(body)) + 1
        /\ \A i \in 0..Len(body) : C15_Depth(body, i) >= 0

\* "(,),a": the comma in parentheses is kept, the one after them splits
C15_Witness ==
    /\ pc = "pieces"
    /\ body = <<"(", ",", ")", ",", "a">>
    /\ pieces = << <<"(", ",", ")">>, <<"a">> >>

\* "),a": the unmatched ")" leaves the depth at 0, so the comma splits
C15_UnmatchedWitness ==
    /\ pc = "pieces"
    /\ body = <<")", ",", "a">>
    /\ pieces = << <<")">>, <<"a">> >>

(***************************************************************************)
(* The ODE alias (src/src/calc/ode.py): evaluate_ode_alias.  The clauses   *)
(* of an `ode ...` line are evaluated by evaluate_fn, which is evaluate;   *)
(* the values the external engine gives for the clauses of this model are  *)
(* listed in ClauseValue.                                                  *)
(***************************************************************************)
\* an equation value: its sides as the engine prints them, the function
\* applications it holds (atoms(AppliedUndef)) and its free symbols
Equation(lhs, rhs, applied, symbols) ==
    [k |-> "Eq", lhs |-> lhs, rhs |-> rhs, applied |-> applied,
     free_symbols |-> symbols]

\* a function application, f(arg)
Application(func, arg) == [func |-> func, arg |-> arg]

\* any other expression value, and the booleans
Expression(str) == [k |-> "expr", str |-> str]
BooleanTrue == [k |-> "bool", str |-> "True"]

YPrimeEquation == <<"y", "'", " ", "=", " ", "y">>
EqCallEquation == <<"E", "q", "(", "d", "(", "y", "(", "x", ")", ",", " ", "x", ")", ",", " ", "y", "(", "x", ")", ")">>
XEquation == <<"x", " ", "=", " ", "1">>
SumClause == <<"x", "+", "1">>
MixedEquation == <<"E", "q", "(", "d", "(", "y", "(", "x", ")", ",", " ", "x", ")", ",", " ", "y", ")">>
TwoFunctionEquation == <<"y", "'", " ", "=", " ", "f", "(", "x", ")">>
BrokenClause == <<"2", " ", "+">>
YAtZero == <<"y", "(", "0", ")", "=", "1">>
YPrimeAtZero == <<"y", "'", "(", "0", ")", "=", "0">>
TrivialCondition == <<"0", "=", "0">>
NumberClause == <<"1">>
MixedCondition == <<"y", "(", "0", ")", "=", "y">>

\* what evaluate returns for a clause, or the error it raises
ClauseValue(clause) ==
    CASE clause \in {YPrimeEquation, EqCallEquation} ->
           Equation("Derivative(y(x), x)", "y(x)", {Application("y", "x")}, {"x"})
      [] clause = XEquation -> Equation("x", "1", {}, {"x"})
      [] clause = SumClause -> Expression("x + 1")
      [] clause = MixedEquation ->
           Equation("Derivative(y(x), x)", "y", {Application("y", "x")}, {"x", "y"})
      [] clause = TwoFunctionEquation ->
           Equation("Derivative(y(x), x)", "f(x)",
                    {Application("y", "x"), Application("f", "x")}, {"x"})
      [] clause = YAtZero -> Equation("y(0)", "1", {Application("y", "0")}, {})
      [] clause = YPrimeAtZero ->
           Equation("Subs(Derivative(y(x), x), x, 0)", "0",
                    {Application("y", "x")}, {})
      [] clause = TrivialCondition -> BooleanTrue
      [] clause = NumberClause -> Expression("1")
      [] clause = MixedCondition ->
           Equation("y(0)", "y", {Application("y", "0")}, {"y"})
      [] OTHER -> Error("invalid syntax")

\* evaluate_fn(text, relaxed=..., session_locals=..., simplify_output=...):
\* the value, and the session as evaluate leaves it (core.py:512-514)
evaluate_fn(clause, S) ==
    [value |-> ClauseValue(clause),
     session |-> IF ClauseValue(clause).k = "Error" \/ S = None THEN S
                 ELSE Bindings(S, ANS, ClauseValue(clause))]

\* sorted(..., key=str): the names of the functions of this model, in order
FunctionOrder == <<"f", "y">>

\* infer_ode_dependent: the first function application in the order of str
infer_ode_dependent(eq) ==
    IF eq.applied = {} THEN None
    ELSE CHOOSE a \in eq.applied :
           \A b \in eq.applied :
              \E i, j \in 1..Len(FunctionOrder) :
                 /\ FunctionOrder[i] = a.func
                 /\ FunctionOrder[j] = b.func
                 /\ i <= j

ErrOdeExpectsEquation == "ode expects an equation, e.g. ode y' = y"
ErrCannotInfer == "could not infer dependent function; use y(x)-style notation"
ErrMixedNotation == "mixed dependent variable notation"
ErrBooleanCondition == "initial condition reduced to a boolean"
ErrConditionNotEquation == "initial condition must be an equation"

Mut_reject_mixed_never(value, dependent) == NoError

\* _reject_mixed_dependent_notation: the error it raises, or NoError
_reject_mixed_dependent_notation(value, dependent) ==
    IF dependent.func \in value.free_symbols THEN ErrMixedNotation ELSE NoError

\* lines 86-92: the error an initial-condition value raises, or NoError
ConditionError(ic_value, dependent) ==
    IF ic_value.k = "Error" THEN ic_value.err
    ELSE IF ic_value.k # "Eq"
    THEN IF ic_value.k = "bool" THEN ErrBooleanCondition
         ELSE ErrConditionNotEquation
    ELSE _reject_mixed_dependent_notation(ic_value, dependent)

\* the lines: `ode `, an equation clause and at most MaxConditions
\* initial-condition clauses, and two lines without a clause
MaxConditions == 2

EquationClauses ==
    { YPrimeEquation, EqCallEquation, XEquation, SumClause, MixedEquation,
      TwoFunctionEquation, BrokenClause }

ConditionClauses ==
    { YAtZero, YPrimeAtZero, TrivialCondition, NumberClause, MixedCondition,
      BrokenClause }

RECURSIVE JoinClauses(_)
JoinClauses(clauses) ==
    IF clauses = <<>> THEN <<>>
    ELSE <<",", " ">> \o Head(clauses) \o JoinClauses(Tail(clauses))

OdePrefix == <<"o", "d", "e", " ">>

OdeLines ==
    { OdePrefix \o c \o JoinClauses(ic) :
        c \in EquationClauses,
        ic \in UNION { [1..n -> ConditionClauses] : n \in 0..MaxConditions } }
      \cup { OdePrefix, OdePrefix \o <<",", " ", ",">> }

InitOde ==
    /\ expression \in OdeLines
    /\ relaxed \in BOOLEAN
    /\ simplify_output \in BOOLEAN
    /\ session_locals \in { None, Dict(EmptyItems) }
    /\ pc = "alias"
    /\ normalized = <<>>
    /\ error = NoError
    /\ result = NoValue
    /\ stages = <<>>
    /\ calls = 0
    /\ stripped = <<>>
    /\ latexed = <<>>
    /\ shorthand = <<>>
    /\ staged = <<>>
    /\ previous = <<>>
    /\ match_name = <<>>
    /\ guarded_expr = <<>>
    /\ parsed_safe = NoValue
    /\ parsed_expr = NoValue
    /\ returned = NoValue
    /\ CliIdle

\* the call of evaluate_fn on the clause that comes next
ClauseCall ==
    [text |-> pieces[Len(fn_calls) + 1], relaxed |-> relaxed,
     simplify_output |-> simplify_output, session_locals |-> session_locals]

\* lines 55-57: body = expr[4:].strip()
AliasBody ==
    /\ pc = "alias"
    /\ body' = Strip(SubSeq(expression, 5, Len(expression)))
    /\ stages' = Append(stages, "body")
    /\ IF body' = <<>>
       THEN error' = ErrOdeExpectsEquation /\ pc' = "raised"
       ELSE error' = error /\ pc' = "split"
    /\ UNCHANGED <<repl_vars, call_frame, normalized, result, session_locals,
                   normalizer_vars, evaluate_vars, returned, pieces,
                   eq_value, dependent_fn, ics, fn_calls, solver_calls>>

\* lines 59-62: pieces = split_top_level_commas(body)
AliasSplit ==
    /\ pc = "split"
    /\ pieces' = split_top_level_commas(body)
    /\ stages' = Append(stages, "clauses")
    /\ IF pieces' = <<>>
       THEN error' = ErrOdeExpectsEquation /\ pc' = "raised"
       ELSE error' = error /\ pc' = "equation"
    /\ UNCHANGED <<repl_vars, call_frame, normalized, result, session_locals,
                   normalizer_vars, evaluate_vars, returned, body,
                   eq_value, dependent_fn, ics, fn_calls, solver_calls>>

\* lines 64-71: the equation clause is evaluated and must be an equation
AliasEquation ==
    /\ pc = "equation"
    /\ fn_calls' = Append(fn_calls, ClauseCall)
    /\ eq_value' = evaluate_fn(pieces[1], session_locals).value
    /\ session_locals' = evaluate_fn(pieces[1], session_locals).session
    /\ stages' = Append(stages, "equation")
    /\ IF eq_value'.k = "Error"
       THEN error' = eq_value'.err /\ pc' = "raised"
       ELSE IF eq_value'.k # "Eq"
       THEN error' = ErrOdeExpectsEquation /\ pc' = "raised"
       ELSE error' = error /\ pc' = "dependent"
    /\ UNCHANGED <<repl_vars, call_frame, normalized, result, normalizer_vars,
                   evaluate_vars, returned, body, pieces, dependent_fn, ics,
                   solver_calls>>

\* lines 73-78: the dependent is inferred, mixed notation is rejected
AliasDependent ==
    /\ pc = "dependent"
    /\ dependent_fn' = infer_ode_dependent(eq_value)
    /\ stages' = Append(stages, "dependent")
    /\ IF dependent_fn' = None
       THEN error' = ErrCannotInfer /\ pc' = "raised"
       ELSE IF _reject_mixed_dependent_notation(eq_value, dependent_fn') # NoError
       THEN /\ error' = _reject_mixed_dependent_notation(eq_value, dependent_fn')
            /\ pc' = "raised"
       ELSE error' = error /\ pc' = "conditions"
    /\ ics' = EmptyItems
    /\ UNCHANGED <<repl_vars, call_frame, normalized, result, session_locals,
                   normalizer_vars, evaluate_vars, returned, body, pieces,
                   eq_value, fn_calls, solver_calls>>

\* lines 79-93: one pass of the loop over the initial-condition clauses
AliasCondition ==
    /\ pc = "conditions"
    /\ Len(fn_calls) < Len(pieces)
    /\ fn_calls' = Append(fn_calls, ClauseCall)
    /\ session_locals' = evaluate_fn(ClauseCall.text, session_locals).session
    /\ stages' = Append(stages, "condition")
    /\ LET ic_value == evaluate_fn(ClauseCall.text, session_locals).value
       IN  IF ConditionError(ic_value, dependent_fn) # NoError
           THEN /\ error' = ConditionError(ic_value, dependent_fn)
                /\ pc' = "raised"
                /\ ics' = ics
           ELSE /\ error' = error
                /\ pc' = pc
                /\ ics' = [p \in DOMAIN ics \cup {ic_value.lhs} |->
                             IF p = ic_value.lhs THEN ic_value.rhs ELSE ics[p]]
    /\ UNCHANGED <<repl_vars, call_frame, normalized, result, normalizer_vars,
                   evaluate_vars, returned, body, pieces, eq_value,
                   dependent_fn, solver_calls>>

Mut_SolverCall_always_ics(eq, dependent, mapping) ==
    [eq |-> eq, func |-> dependent, ics |-> Dict(mapping)]

\* the call of dsolve: with ics only when the mapping is not empty
SolverCall(eq, dependent, mapping) ==
    IF DOMAIN mapping # {}
    THEN [eq |-> eq, func |-> dependent, ics |-> Dict(mapping)]
    ELSE [eq |-> eq, func |-> dependent, ics |-> NoValue]

\* lines 95-102: the solver is called and its result returned
AliasSolve ==
    /\ pc = "conditions"
    /\ Len(fn_calls) = Len(pieces)
    /\ solver_calls' = Append(solver_calls, SolverCall(eq_value, dependent_fn, ics))
    /\ result' = [k |-> "dsolve", call |-> SolverCall(eq_value, dependent_fn, ics)]
    /\ stages' = Append(stages, "solve")
    /\ pc' = "returned"
    /\ UNCHANGED <<repl_vars, call_frame, normalized, error, session_locals,
                   normalizer_vars, evaluate_vars, returned, body, pieces,
                   eq_value, dependent_fn, ics, fn_calls>>

NextOde ==
    \/ AliasBody
    \/ AliasSplit
    \/ AliasEquation
    \/ AliasDependent
    \/ AliasCondition
    \/ AliasSolve

SpecOde == InitOde /\ [][NextOde]_vars

\* the stages of an alias with n clauses, in the order of the protocol
C16_Order(n) ==
    <<"body", "clauses", "equation", "dependent">>
        \o (IF n > 1 THEN [i \in 1..(n - 1) |-> "condition"] ELSE <<>>)
        \o <<"solve">>

\* the clauses of the line, once it is split
C16_Clauses == pieces

\* the error of the check that a value fails as the equation, or NoError
C16_EquationCheck(value) ==
    IF value.k = "Error" THEN value.err
    ELSE IF value.k # "Eq" THEN ErrOdeExpectsEquation
    ELSE IF value.applied = {} THEN ErrCannotInfer
    ELSE IF infer_ode_dependent(value).func \in value.free_symbols
    THEN ErrMixedNotation
    ELSE NoError

\* the error of the check that a value fails as an initial condition
C16_ConditionCheck(value, dependent) ==
    IF value.k = "Error" THEN value.err
    ELSE IF value.k = "bool" THEN ErrBooleanCondition
    ELSE IF value.k # "Eq" THEN ErrConditionNotEquation
    ELSE IF dependent.func \in value.free_symbols THEN ErrMixedNotation
    ELSE NoError

\* the error of the i-th clause
C16_ClauseCheck(i) ==
    IF i = 1 THEN C16_EquationCheck(ClauseValue(C16_Clauses[1]))
    ELSE C16_ConditionCheck(ClauseValue(C16_Clauses[i]),
                            infer_ode_dependent(ClauseValue(C16_Clauses[1])))

\* the clauses that fail their check: the equation clause, or else the
\* initial-condition clauses checked against its dependent
C16_Failing ==
    IF C16_Clauses = <<>> THEN {}
    ELSE IF C16_ClauseCheck(1) # NoError THEN {1}
    ELSE { i \in 2..Len(C16_Clauses) : C16_ClauseCheck(i) # NoError }

\* the session handed to the i-th call is the one the call before left
C16_SameArguments(i) ==
    /\ fn_calls[i].text = C16_Clauses[i]
    /\ fn_calls[i].relaxed = relaxed
    /\ fn_calls[i].simplify_output = simplify_output
    /\ fn_calls[i].session_locals
         = IF session_locals = None THEN None
           ELSE IF i = 1 THEN Dict(EmptyItems)
           ELSE evaluate_fn(C16_Clauses[i - 1], fn_calls[i - 1].session_locals).session

C16_Solved ==
    solver_calls # <<>> =>
        /\ Len(solver_calls) = 1
        /\ error = NoError
        /\ C16_Clauses # <<>>
        /\ stages = C16_Order(Len(C16_Clauses))
        /\ Len(fn_calls) = Len(C16_Clauses)
        /\ C16_Failing = {}
        /\ ClauseValue(C16_Clauses[1]).k = "Eq"
        /\ dependent_fn \in ClauseValue(C16_Clauses[1]).applied
        /\ \A i \in 2..Len(C16_Clauses) : ClauseValue(C16_Clauses[i]).k = "Eq"
        /\ solver_calls[1].ics # NoValue <=> Len(C16_Clauses) > 1

C16_Raised ==
    pc = "raised" =>
        /\ solver_calls = <<>>
        /\ IF C16_Clauses = <<>>
           THEN fn_calls = <<>> /\ error = ErrOdeExpectsEquation
           ELSE /\ C16_Failing # {}
                /\ Len(fn_calls) = Min(C16_Failing)
                /\ error = C16_ClauseCheck(Min(C16_Failing))

C16_State ==
    /\ Len(stages) <= Len(C16_Order(Len(C16_Clauses)))
    /\ stages = SubSeq(C16_Order(Len(C16_Clauses)), 1, Len(stages))
    /\ pieces # <<>> => pieces = split_top_level_commas(body)
    /\ body # <<>> => body = Strip(SubSeq(expression, 5, Len(expression)))
    /\ \A i \in 1..Len(fn_calls) : C16_SameArguments(i)
    /\ C16_Solved
    /\ C16_Raised

\* once a check has raised, no clause is evaluated and the solver is not
\* called; the solver is called from the end of the loop only
C16_Step ==
    /\ error # NoError => UNCHANGED <<fn_calls, solver_calls>>
    /\ solver_calls' # solver_calls =>
          pc = "conditions" /\ Len(fn_calls) = Len(pieces) /\ error' = NoError

\* C16: the solver is called only after the body gave a clause, the first
\* clause evaluated to an equation, a dependent was inferred from it and every
\* initial-condition clause, evaluated left to right with the same relaxed,
\* simplify_output and session arguments, evaluated to an equation; the first
\* failing check raises its error, no later clause is evaluated and the solver
\* is not called; the solver gets an ics mapping only when there is an initial
\* condition
C16_OdeProtocol == [](C16_State) /\ [][C16_Step]_vars

\* "ode y' = y, y(0)=1, y'(0)=0": three calls of evaluate, then the solver
\* with both initial conditions
C16_Witness ==
    /\ pc = "returned"
    /\ Len(pieces) = 3
    /\ pieces[1] = YPrimeEquation
    /\ Len(fn_calls) = 3
    /\ Len(solver_calls) = 1
    /\ solver_calls[1].ics = Dict([p \in {"y(0)", "Subs(Derivative(y(x), x), x, 0)"}
                                     |-> IF p = "y(0)" THEN "1" ELSE "0"])

\* "ode y' = y, 1, 2 +": the second clause is not an equation, the third is
\* not evaluated
C16_RaisedWitness ==
    /\ pc = "raised"
    /\ pieces = <<YPrimeEquation, NumberClause, BrokenClause>>
    /\ Len(fn_calls) = 2
    /\ error = ErrConditionNotEquation
    /\ solver_calls = <<>>

(***************************************************************************)
(* The command line (src/src/calc/cli.py): run, in one-shot mode and as    *)
(* the REPL loop, with _execute_expression and the ODE alias of cli.py.    *)
(* Of the options only --strict, -h/--help and unknown ones are modelled;  *)
(* the output is the value whose rendering is printed.                    *)
(***************************************************************************)
SumLine == <<"2", "+", "2">>
AssignLine == <<"a", " ", "=", " ", "3">>
ReservedLine == <<"f", " ", "=", " ", "1">>

\* the value the engine gives for a text
EngineValue(expr) ==
    IF expr = SumLine THEN PyInt(4)
    ELSE IF expr = AssignLine THEN PyInt(3)
    ELSE ClauseValue(expr)

\* core.py:484-497: the value of a call of evaluate, or the error it raises
EvaluateValue(expr, assignment) ==
    IF _validate_expression(expr) # NoError THEN Error(_validate_expression(expr))
    ELSE IF assignment.ok /\ IsReserved(assignment.name) THEN Error(ErrReserved)
    ELSE EngineValue(expr)

\* core.py:501-514: the session as the call leaves it
EvaluateOutcome(value, assignment, S) ==
    [value |-> value,
     session |-> IF value.k = "Error" \/ S = None THEN S
                 ELSE SessionWrite(S, assignment.name, value)]

\* core.py:484-514 once the normalized text is matched against
\* ASSIGNMENT_PATTERN
EvaluateMatched(expr, assignment, S) ==
    EvaluateOutcome(EvaluateValue(expr, assignment), assignment, S)

\* evaluate(expr, relaxed=rlx, session_locals=S)
evaluate(expr, rlx, S) ==
    Only({ EvaluateMatched(expr, ASSIGNMENT_PATTERN_match(n13), S) :
           n13 \in { NormalizedText(expr, rlx) } })

\* cli.py:299-319, the copy of split_top_level_commas
_split_top_level_commas(text) == SplitLoop(text, 1, <<>>, <<>>, 0)

\* what _evaluate_ode_alias raises or returns, the session it leaves and the
\* calls of dsolve it made
AliasOutcome(err, value, S, solver) ==
    [err |-> err, value |-> value, session |-> S, solver |-> solver]

\* cli.py:358-367: the loop over the initial-condition clauses, from the
\* i-th clause on, ic being what evaluate gives for the clause
RECURSIVE CliConditions(_, _, _, _, _)
CliConditions(clauses, i, rlx, S, mapping) ==
    IF i > Len(clauses) THEN [err |-> NoError, session |-> S, ics |-> mapping]
    ELSE Only({
           IF ic.value.k = "Error"
           THEN [err |-> ic.value.err, session |-> ic.session, ics |-> mapping]
           ELSE IF ic.value.k # "Eq"
           THEN [err |-> ErrConditionNotEquation, session |-> ic.session,
                 ics |-> mapping]
           ELSE CliConditions(clauses, i + 1, rlx, ic.session,
                    [p \in DOMAIN mapping \cup {ic.value.lhs} |->
                       IF p = ic.value.lhs THEN ic.value.rhs ELSE mapping[p]]) :
           ic \in { evaluate(clauses[i], rlx, S) } })

\* cli.py:369-376: dsolve is called, with ics when the mapping is not empty
CliAliasSolve(eq, conditions) ==
    IF conditions.err # NoError
    THEN AliasOutcome(conditions.err, NoValue, conditions.session, <<>>)
    ELSE AliasOutcome(NoError,
             [k |-> "dsolve",
              call |-> SolverCall(eq, infer_ode_dependent(eq), conditions.ics)],
             conditions.session,
             <<SolverCall(eq, infer_ode_dependent(eq), conditions.ics)>>)

\* cli.py:343-356: the equation clause and the dependent
CliAliasEquation(clauses, rlx, eq) ==
    IF eq.value.k = "Error" THEN AliasOutcome(eq.value.err, NoValue, eq.session, <<>>)
    ELSE IF eq.value.k # "Eq"
    THEN AliasOutcome(ErrOdeExpectsEquation, NoValue, eq.session, <<>>)
    ELSE IF infer_ode_dependent(eq.value) = None
    THEN AliasOutcome(ErrCannotInfer, NoValue, eq.session, <<>>)
    ELSE Only({ CliAliasSolve(eq.value, conditions) :
                conditions \in { CliConditions(clauses, 2, rlx, eq.session,
                                               EmptyItems) } })

\* cli.py:334-342
CliAliasClauses(clauses, rlx, S) ==
    IF clauses = <<>> THEN AliasOutcome(ErrOdeExpectsEquation, NoValue, S, <<>>)
    ELSE Only({ CliAliasEquation(clauses, rlx, eq) :
                eq \in { evaluate(clauses[1], rlx, S) } })

_evaluate_ode_alias(expr, rlx, S) ==
    Only({ CliAliasClauses(clauses, rlx, S) :
           clauses \in { _split_top_level_commas(
                             Strip(SubSeq(expr, 5, Len(expr)))) } })

\* expr.strip().lower().startswith("ode ")
is_ode_alias(expr) ==
    /\ Len(Strip(expr)) >= 4
    /\ Strip(expr)[1] \in {"o", "O"}
    /\ Strip(expr)[2] \in {"d", "D"}
    /\ Strip(expr)[3] \in {"e", "E"}
    /\ Strip(expr)[4] = " "

\* what is printed for a value
Printed(value) == [k |-> "result", value |-> value]

\* the outcome of _execute_expression on an ODE alias line
ExecutedAlias(outcome) ==
    [err |-> outcome.err,
     out |-> IF outcome.err # NoError THEN NoValue ELSE Printed(outcome.value),
     session |-> outcome.session,
     solver |-> outcome.solver]

\* the outcome of _execute_expression on any other line
ExecutedPlain(outcome) ==
    [err |-> IF outcome.value.k = "Error" THEN outcome.value.err ELSE NoError,
     out |-> IF outcome.value.k = "Error" THEN NoValue
             ELSE Printed(outcome.value),
     session |-> outcome.session,
     solver |-> <<>>]

\* _execute_expression: the error it raises, what it prints, the session it
\* leaves and the calls of dsolve it makes
_execute_expression(expr, rlx, S) ==
    IF is_ode_alias(expr)
    THEN Only({ ExecutedAlias(outcome) :
                outcome \in { _evaluate_ode_alias(expr, rlx, S) } })
    ELSE Only({ ExecutedPlain(outcome) : outcome \in { evaluate(expr, rlx, S) } })

ErrUnknownOption == "unknown option"

\* _parse_options from the idx-th argument on
RECURSIVE ParseOptionsFrom(_, _, _)
ParseOptionsFrom(args, idx, rlx) ==
    IF idx > Len(args) \/ ~StartsWith(args[idx], <<"-">>)
    THEN [k |-> "options", relaxed |-> rlx,
          remaining |-> SubSeq(args, idx, Len(args))]
    ELSE IF args[idx] \in { <<"-", "h">>, <<"-", "-", "h", "e", "l", "p">> } THEN [k |-> "SystemExit"]
    ELSE IF args[idx] = <<"-", "-", "s", "t", "r", "i", "c", "t">> THEN ParseOptionsFrom(args, idx + 1, FALSE)
    ELSE IF args[idx] = <<"-", "-">>
    THEN [k |-> "options", relaxed |-> rlx,
          remaining |-> SubSeq(args, idx + 1, Len(args))]
    ELSE IF StartsWith(args[idx], <<"-", "-">>) THEN Error(ErrUnknownOption)
    ELSE [k |-> "options", relaxed |-> rlx,
          remaining |-> SubSeq(args, idx, Len(args))]

_parse_options(args) == ParseOptionsFrom(args, 1, TRUE)

\* the end of the first word of a stripped text
WordEnd(s) == Min({ j \in 1..(Len(s) + 1) : At(s, j) \in Space \cup {""} })

\* shlex.split on a line without quotes: its words
RECURSIVE shlex_split(_)
shlex_split(s) ==
    IF Strip(s) = <<>> THEN <<>>
    ELSE <<SubSeq(Strip(s), 1, WordEnd(Strip(s)) - 1)>>
         \o shlex_split(SubSeq(Strip(s), WordEnd(Strip(s)), Len(Strip(s))))

\* " ".join(remaining)
RECURSIVE JoinWords(_)
JoinWords(words) ==
    IF words = <<>> THEN <<>>
    ELSE IF Len(words) = 1 THEN words[1]
    ELSE words[1] \o <<" ">> \o JoinWords(Tail(words))

CLI_NAME == <<"p", "h", "i", "l">>

\* _try_parse_repl_inline_options: None, or what _parse_options gives
_try_parse_repl_inline_options(expr) ==
    IF StartsWith(Strip(expr), CLI_NAME \o <<" ">>)
    THEN _parse_options(shlex_split(SubSeq(Strip(expr), 5, Len(Strip(expr)))))
    ELSE IF ~StartsWith(Strip(expr), <<"-">>) THEN None
    ELSE _parse_options(shlex_split(Strip(expr)))

QuitCommands == { <<":", "q">>, <<":", "q", "u", "i", "t">>, <<":", "x">> }

\* _handle_repl_command: "EOFError" when it raises, else whether it handled
\* the line
_handle_repl_command(expr) ==
    IF expr \in QuitCommands THEN "EOFError"
    ELSE IF StartsWith(expr, <<":">>) THEN "handled"
    ELSE "no"

\* the six steps of cli.py, each by its first line
TUTORIAL_STEPS ==
    <<"step 1/6", "step 2/6", "step 3/6", "step 4/6", "step 5/6", "step 6/6">>

TutorialOutcome(handled, state, out) ==
    [handled |-> handled, state |-> state, out |-> out]

Mut_TutorialAdvance_unbounded(state, steps) ==
    TutorialOutcome(TRUE, [state EXCEPT !.index = state.index + 1], "step")

\* `:next` while the tutorial is active (cli.py:620-625, repl.py:91-96)
TutorialAdvance(state, steps) ==
    IF state.index + 1 >= Len(steps)
    THEN TutorialOutcome(TRUE, state, "tutorial complete")
    ELSE TutorialOutcome(TRUE, [state EXCEPT !.index = state.index + 1],
                         steps[state.index + 2])

\* `:repeat` (cli.py:626-631, repl.py:97-102)
TutorialRepeat(state, steps) ==
    IF ~state.active THEN TutorialOutcome(TRUE, state, "hint: start with :tutorial")
    ELSE TutorialOutcome(TRUE, state, steps[state.index + 1])

\* `:done` (cli.py:632-638, repl.py:103-109)
TutorialDone(state) ==
    IF state.active
    THEN TutorialOutcome(TRUE, [state EXCEPT !.active = FALSE],
                         "tutorial mode ended")
    ELSE TutorialOutcome(TRUE, state, "hint: tutorial is not active")

\* _tutorial_command of cli.py: whether it handled the line, the state it
\* leaves and what it prints last
_tutorial_command(expr, state) ==
    IF state = None THEN TutorialOutcome(FALSE, state, "")
    ELSE IF expr \in { <<":", "t", "u", "t", "o", "r", "i", "a", "l">>, <<":", "t", "o", "u", "r">> }
    THEN TutorialOutcome(TRUE, [active |-> TRUE, index |-> 0], TUTORIAL_STEPS[1])
    ELSE IF expr = <<":", "n", "e", "x", "t">>
    THEN IF ~state.active
         THEN TutorialOutcome(TRUE, state, "hint: start with :tutorial")
         ELSE TutorialAdvance(state, TUTORIAL_STEPS)
    ELSE IF expr = <<":", "r", "e", "p", "e", "a", "t">> THEN TutorialRepeat(state, TUTORIAL_STEPS)
    ELSE IF expr = <<":", "d", "o", "n", "e">> THEN TutorialDone(state)
    ELSE TutorialOutcome(FALSE, state, "")

\* tutorial_command of repl.py, which takes the steps as an argument and
\* knows `:t` as well
tutorial_command(expr, state, tutorial_steps) ==
    IF state = None THEN TutorialOutcome(FALSE, state, "")
    ELSE IF expr \in { <<":", "t", "u", "t", "o", "r", "i", "a", "l">>, <<":", "t">>, <<":", "t", "o", "u", "r">> }
    THEN TutorialOutcome(TRUE, [active |-> TRUE, index |-> 0], tutorial_steps[1])
    ELSE IF expr = <<":", "n", "e", "x", "t">>
    THEN IF ~state.active
         THEN TutorialOutcome(TRUE, state, "hint: start with :tutorial")
         ELSE TutorialAdvance(state, tutorial_steps)
    ELSE IF expr = <<":", "r", "e", "p", "e", "a", "t">> THEN TutorialRepeat(state, tutorial_steps)
    ELSE IF expr = <<":", "d", "o", "n", "e">> THEN TutorialDone(state)
    ELSE TutorialOutcome(FALSE, state, "")

\* the command lines of the model, and the lines typed at the prompt
OneShotCommands == { <<":", "e", "x", "a", "m", "p", "l", "e", "s">>, <<":", "o", "d", "e">>, <<":", "t", "u", "t", "o", "r", "i", "a", "l">>, <<":", "t", "o", "u", "r">>, <<":", "v">> }

ExpressionLines ==
    { SumLine, AssignLine, ReservedLine, BrokenClause,
      OdePrefix \o YPrimeEquation,
      <<"O", "D", "E", " ">> \o YPrimeEquation \o <<",", " ">> \o YAtZero,
      OdePrefix \o MixedEquation,
      OdePrefix \o YPrimeEquation \o <<",", " ">> \o MixedCondition,
      OdePrefix \o SumClause,
      OdePrefix \o YPrimeEquation \o <<",", " ">> \o NumberClause }

RunArguments ==
    { <<>>, <<<<"-", "-", "s", "t", "r", "i", "c", "t">>>>, <<<<"-", "-", "h", "e", "l", "p">>>>, <<<<"-", "-", "b", "o", "g", "u", "s">>>>, <<<<":", "e", "x", "a", "m", "p", "l", "e", "s">>>> }
      \cup { <<e>> : e \in ExpressionLines }
      \cup { <<<<"-", "-", "s", "t", "r", "i", "c", "t">>, e>> : e \in ExpressionLines }

ReplLines ==
    ExpressionLines
      \cup QuitCommands
      \cup { <<>>, <<" ">>, <<":", "t", "u", "t", "o", "r", "i", "a", "l">>, <<":", "n", "e", "x", "t">>, <<":", "r", "e", "p", "e", "a", "t">>, <<":", "d", "o", "n", "e">>, <<":", "h">>, <<":", "b", "o", "g", "u", "s">>,
             <<"-", "-", "s", "t", "r", "i", "c", "t">>, <<"-", "h">>, <<"-", "-", "b", "o", "g", "u", "s">>, <<"p", "h", "i", "l", " ", "-", "-", "h", "e", "l", "p">>,
             <<"-", "-", "s", "t", "r", "i", "c", "t">> \o <<" ">> \o SumLine, CLI_NAME \o <<" ">> \o AssignLine }

EOFError == <<"EOFError">>
KeyboardInterrupt == <<"KeyboardInterrupt">>

MaxLines == 2

InitRun ==
    /\ argv \in RunArguments
    /\ pc = "run"
    /\ expression = <<>>
    /\ relaxed = TRUE
    /\ simplify_output = TRUE
    /\ normalized = <<>>
    /\ error = NoError
    /\ result = NoValue
    /\ session_locals = None
    /\ stages = <<>>
    /\ calls = 0
    /\ stripped = <<>>
    /\ latexed = <<>>
    /\ shorthand = <<>>
    /\ staged = <<>>
    /\ previous = <<>>
    /\ match_name = <<>>
    /\ guarded_expr = <<>>
    /\ parsed_safe = NoValue
    /\ parsed_expr = NoValue
    /\ returned = NoValue
    /\ body = <<>>
    /\ pieces = <<>>
    /\ AliasIdle
    /\ line = <<>>
    /\ prompts = 0
    /\ printed = NoValue
    /\ exit_code = None
    /\ tutorial_state = None

core_vars ==
    <<simplify_output, normalized, result, stages, calls, normalizer_vars,
      previous, evaluate_vars, returned, body, pieces, eq_value, dependent_fn,
      ics, fn_calls>>

\* cli.py:706-711: _parse_options(args) raises
RunOptionsRaise ==
    /\ pc = "run"
    /\ _parse_options(argv).k # "options"
    /\ exit_code' = IF _parse_options(argv).k = "SystemExit" THEN PyInt(0)
                    ELSE PyInt(1)
    /\ error' = IF _parse_options(argv).k = "SystemExit" THEN NoError
                ELSE _parse_options(argv).err
    /\ pc' = "exited"
    /\ UNCHANGED <<core_vars, argv, expression, relaxed, session_locals,
                   solver_calls, line, prompts, printed, tutorial_state>>

\* cli.py:722-751: one-shot mode
RunOneShot ==
    /\ pc = "run"
    /\ _parse_options(argv).k = "options"
    /\ _parse_options(argv).remaining # <<>>
    /\ relaxed' = _parse_options(argv).relaxed
    /\ expression' = JoinWords(_parse_options(argv).remaining)
    /\ IF expression' \in OneShotCommands
       THEN /\ printed' = [k |-> "text", text |-> expression']
            /\ error' = NoError
            /\ solver_calls' = solver_calls
       ELSE \E done \in {_execute_expression(expression', relaxed', None)} :
                /\ printed' = done.out
                /\ error' = done.err
                /\ solver_calls' = solver_calls \o done.solver
    /\ exit_code' = IF error' # NoError THEN PyInt(1) ELSE PyInt(0)
    /\ pc' = "exited"
    /\ UNCHANGED <<core_vars, argv, session_locals, line, prompts,
                   tutorial_state>>

\* cli.py:753-765: the REPL starts
RunRepl ==
    /\ pc = "run"
    /\ _parse_options(argv).k = "options"
    /\ _parse_options(argv).remaining = <<>>
    /\ relaxed' = _parse_options(argv).relaxed
    /\ session_locals' = Dict(EmptyItems)
    /\ tutorial_state' = [active |-> FALSE, index |-> 0]
    /\ pc' = "prompt"
    /\ UNCHANGED <<core_vars, argv, expression, error, solver_calls, line,
                   prompts, printed, exit_code>>

\* cli.py:770, 801-803: input raises EOFError or KeyboardInterrupt
ReplEndOfInput ==
    /\ pc = "prompt"
    /\ line' \in { EOFError, KeyboardInterrupt }
    /\ exit_code' = PyInt(0)
    /\ pc' = "exited"
    /\ UNCHANGED <<core_vars, argv, expression, relaxed, error,
                   session_locals, solver_calls, prompts, printed,
                   tutorial_state>>

\* the line that input(PROMPT).strip() gives
ReadLine ==
    /\ pc = "prompt"
    /\ prompts < MaxLines
    /\ prompts' = prompts + 1
    /\ \E typed \in ReplLines : line' = Strip(typed)

\* cli.py:771-772: an empty line
ReplBlank ==
    /\ ReadLine
    /\ line' = <<>>
    /\ printed' = NoValue
    /\ error' = NoError
    /\ UNCHANGED <<core_vars, argv, expression, relaxed, pc, session_locals,
                   solver_calls, exit_code, tutorial_state>>

\* cli.py:773-774: a tutorial command
ReplTutorial ==
    /\ ReadLine
    /\ line' # <<>>
    /\ _tutorial_command(line', tutorial_state).handled
    /\ tutorial_state' = _tutorial_command(line', tutorial_state).state
    /\ printed' = [k |-> "text",
                   text |-> _tutorial_command(line', tutorial_state).out]
    /\ error' = NoError
    /\ UNCHANGED <<core_vars, argv, expression, relaxed, pc, session_locals,
                   solver_calls, exit_code>>

\* the line is neither empty nor a tutorial command
ReadCommand ==
    /\ ReadLine
    /\ line' # <<>>
    /\ ~_tutorial_command(line', tutorial_state).handled

\* cli.py:775, 573-574, 801-803: :q, :quit and :x raise EOFError
ReplQuit ==
    /\ ReadCommand
    /\ _handle_repl_command(line') = "EOFError"
    /\ exit_code' = PyInt(0)
    /\ pc' = "exited"
    /\ UNCHANGED <<core_vars, argv, expression, relaxed, error,
                   session_locals, solver_calls, printed, tutorial_state>>

\* cli.py:775-776: any other line that starts with ":"
ReplCommand ==
    /\ ReadCommand
    /\ _handle_repl_command(line') = "handled"
    /\ printed' = [k |-> "text", text |-> line']
    /\ error' = NoError
    /\ UNCHANGED <<core_vars, argv, expression, relaxed, pc, session_locals,
                   solver_calls, exit_code, tutorial_state>>

\* cli.py:788-800, 804-805: the expression is executed; an error is printed
Execute(expr, rlx) ==
    /\ expression' = expr
    /\ \E done \in {_execute_expression(expression', rlx, session_locals)} :
           /\ printed' = done.out
           /\ error' = done.err
           /\ session_locals' = done.session
           /\ solver_calls' = solver_calls \o done.solver

\* cli.py:777-800: a line without inline options
ReplExecute ==
    /\ ReadCommand
    /\ _handle_repl_command(line') = "no"
    /\ _try_parse_repl_inline_options(line') = None
    /\ Execute(line', relaxed)
    /\ UNCHANGED <<core_vars, argv, relaxed, pc, exit_code, tutorial_state>>

\* the line holds inline options
ReadOptions ==
    /\ ReadCommand
    /\ _handle_repl_command(line') = "no"
    /\ _try_parse_repl_inline_options(line') # None

\* cli.py:777-787: inline options alone
ReplOptions ==
    /\ ReadOptions
    /\ _try_parse_repl_inline_options(line').k = "options"
    /\ _try_parse_repl_inline_options(line').remaining = <<>>
    /\ relaxed' = _try_parse_repl_inline_options(line').relaxed
    /\ printed' = NoValue
    /\ error' = NoError
    /\ UNCHANGED <<core_vars, argv, expression, pc, session_locals,
                   solver_calls, exit_code, tutorial_state>>

\* cli.py:777-800: inline options and an expression
ReplOptionsExecute ==
    /\ ReadOptions
    /\ _try_parse_repl_inline_options(line').k = "options"
    /\ _try_parse_repl_inline_options(line').remaining # <<>>
    /\ relaxed' = _try_parse_repl_inline_options(line').relaxed
    /\ Execute(JoinWords(_try_parse_repl_inline_options(line').remaining),
               relaxed')
    /\ UNCHANGED <<core_vars, argv, pc, exit_code, tutorial_state>>

\* cli.py:777, 804-805: _parse_options raises a ValueError, which is printed
ReplOptionsError ==
    /\ ReadOptions
    /\ _try_parse_repl_inline_options(line').k = "Error"
    /\ error' = _try_parse_repl_inline_options(line').err
    /\ printed' = NoValue
    /\ UNCHANGED <<core_vars, argv, expression, relaxed, pc, session_locals,
                   solver_calls, exit_code, tutorial_state>>

\* cli.py:777, 487-489: _parse_options raises SystemExit(0) on -h or --help,
\* which neither except clause of the loop catches
ReplOptionsExit ==
    /\ ReadOptions
    /\ _try_parse_repl_inline_options(line').k = "SystemExit"
    /\ printed' = [k |-> "text", text |-> line']
    /\ exit_code' = PyInt(0)
    /\ pc' = "exited"
    /\ UNCHANGED <<core_vars, argv, expression, relaxed, error,
                   session_locals, solver_calls, tutorial_state>>

NextRun ==
    \/ RunOptionsRaise
    \/ RunOneShot
    \/ RunRepl
    \/ ReplEndOfInput
    \/ ReplBlank
    \/ ReplTutorial
    \/ ReplQuit
    \/ ReplCommand
    \/ ReplExecute
    \/ ReplOptions
    \/ ReplOptionsExecute
    \/ ReplOptionsError
    \/ ReplOptionsExit

SpecRun == InitRun /\ [][NextRun]_vars

\* the clauses of an `ode ...` line
C17_Clauses(e) == _split_top_level_commas(Strip(SubSeq(e, 5, Len(e))))

\* the value holds the bare symbol of the dependent together with its
\* function-call form
C17_IsMixed(value, dependent) ==
    /\ value.k = "Eq"
    /\ _reject_mixed_dependent_notation(value, dependent) = ErrMixedNotation

\* the i-th clause is evaluated, and its value is mixed for the dependent of
\* the equation
C17_MixedAt(clauses, i) ==
    /\ EngineValue(clauses[1]).k = "Eq"
    /\ infer_ode_dependent(EngineValue(clauses[1])) # None
    /\ \A j \in 2..(i - 1) : EngineValue(clauses[j]).k = "Eq"
    /\ C17_IsMixed(EngineValue(clauses[i]),
                   infer_ode_dependent(EngineValue(clauses[1])))

C17_MixedLine(e) ==
    \E i \in 1..Len(C17_Clauses(e)) : C17_MixedAt(C17_Clauses(e), i)

\* the step executes the `ode ...` line expression'
C17_Executes ==
    /\ is_ode_alias(expression')
    /\ \/ pc = "run" /\ pc' = "exited"
       \/ pc = "prompt" /\ prompts' = prompts + 1 /\ line' = expression'

\* C17: whenever the evaluated equation or an evaluated initial condition of
\* an `ode ...` line holds the bare symbol of the dependent name together
\* with its function-call form, executing the line fails with the
\* mixed-notation error and the solver is not called.
C17_RejectsMixed ==
    [][(C17_Executes /\ C17_MixedLine(expression')) =>
           (error' = ErrMixedNotation /\ solver_calls' = solver_calls)]_vars

\* C18: in a REPL session, after any input line that is executed
\* successfully (a plain expression, an assignment or an `ode ...` line), the
\* session binding `ans` equals the result that was printed for that line.
C18_AnsIsLastResult ==
    (pc = "prompt" /\ error = NoError /\ printed.k = "result") =>
        /\ ANS \in Keys(session_locals)
        /\ session_locals.items[ANS] = printed.value

\* the lines on which the claim lets the loop end, with the two exceptions
\* of input
C19_EndsLoop == QuitCommands \cup {EOFError, KeyboardInterrupt}

\* the REPL ends only on a quit command, end of input or an interrupt, and
\* then with exit code 0
C19_ReplEnds ==
    (pc = "prompt" /\ pc' = "exited") =>
        (line' \in C19_EndsLoop /\ exit_code' = PyInt(0))

\* every other line read is followed by another prompt, and no binding of the
\* session is lost
C19_ReplGoesOn ==
    (pc = "prompt" /\ prompts' = prompts + 1 /\ line' \notin C19_EndsLoop) =>
        /\ pc' = "prompt"
        /\ exit_code' = None
        /\ Keys(session_locals) \subseteq Keys(session_locals')

\* one-shot mode: exit code 1 when the expression fails, 0 when it succeeds
C19_OneShot ==
    (pc = "run" /\ pc' = "exited" /\ _parse_options(argv).k = "options"
       /\ expression' \notin OneShotCommands) =>
        exit_code' = IF _execute_expression(expression', relaxed', None).err
                          # NoError
                     THEN PyInt(1) ELSE PyInt(0)

\* C19: the REPL loop ends only on `:q`, `:quit`, `:x`, end of input or an
\* interrupt, and then returns exit code 0; every other input line, one whose
\* execution raises an error included, is followed by another prompt with the
\* session bindings kept; in one-shot mode a failing expression returns exit
\* code 1 and a successful one 0.
C19_ReplLoop == [][C19_ReplEnds /\ C19_ReplGoesOn /\ C19_OneShot]_vars

(***************************************************************************)
(* The tutorial commands on their own: any sequence of them, given to      *)
(* _tutorial_command of cli.py or to tutorial_command of repl.py, from the *)
(* state that run creates (cli.py:766).                                    *)
(***************************************************************************)
MaxTutorialCommands == 8

TutorialInputs ==
    { <<":", "t", "u", "t", "o", "r", "i", "a", "l">>, <<":", "t", "o", "u", "r">>, <<":", "t">>, <<":", "n", "e", "x", "t">>, <<":", "r", "e", "p", "e", "a", "t">>, <<":", "d", "o", "n", "e">>, SumLine }

InitTutorial ==
    /\ pc \in {"cli", "repl"}
    /\ expression = <<>>
    /\ relaxed = TRUE
    /\ simplify_output = TRUE
    /\ normalized = <<>>
    /\ error = NoError
    /\ result = NoValue
    /\ session_locals = None
    /\ stages = <<>>
    /\ calls = 0
    /\ stripped = <<>>
    /\ latexed = <<>>
    /\ shorthand = <<>>
    /\ staged = <<>>
    /\ previous = <<>>
    /\ match_name = <<>>
    /\ guarded_expr = <<>>
    /\ parsed_safe = NoValue
    /\ parsed_expr = NoValue
    /\ returned = NoValue
    /\ body = <<>>
    /\ pieces = <<>>
    /\ AliasIdle
    /\ argv = <<>>
    /\ line = <<>>
    /\ prompts = 0
    /\ printed = NoValue
    /\ exit_code = None
    /\ tutorial_state = [active |-> FALSE, index |-> 0]

\* one call: the state is updated in place, and the text is printed
TutorialCall(typed, done) ==
    /\ prompts < MaxTutorialCommands
    /\ prompts' = prompts + 1
    /\ line' = typed
    /\ tutorial_state' = done.state
    /\ printed' = IF done.handled THEN [k |-> "text", text |-> done.out]
                  ELSE NoValue
    /\ UNCHANGED <<core_vars, argv, expression, relaxed, pc, error,
                   session_locals, solver_calls, exit_code>>

CliTutorialCommand ==
    /\ pc = "cli"
    /\ \E typed \in TutorialInputs :
           TutorialCall(typed, _tutorial_command(typed, tutorial_state))

ReplTutorialCommand ==
    /\ pc = "repl"
    /\ \E typed \in TutorialInputs :
           TutorialCall(typed,
                        tutorial_command(typed, tutorial_state, TUTORIAL_STEPS))

NextTutorial ==
    \/ CliTutorialCommand
    \/ ReplTutorialCommand

SpecTutorial == InitTutorial /\ [][NextTutorial]_vars

C20_Steps == Len(TUTORIAL_STEPS)

\* what the claim says of one command
C20_Command ==
    /\ line' = <<":", "t", "u", "t", "o", "r", "i", "a", "l">> =>
           tutorial_state' = [active |-> TRUE, index |-> 0]
    /\ (line' = <<":", "n", "e", "x", "t">> /\ tutorial_state.active
          /\ tutorial_state.index + 1 < C20_Steps) =>
           tutorial_state' = [active |-> TRUE,
                              index |-> tutorial_state.index + 1]
    /\ (line' = <<":", "n", "e", "x", "t">> /\ tutorial_state.active
          /\ tutorial_state.index + 1 = C20_Steps) =>
           tutorial_state' = tutorial_state
    /\ (line' \in { <<":", "n", "e", "x", "t">>, <<":", "r", "e", "p", "e", "a", "t">> } /\ ~tutorial_state.active) =>
           tutorial_state' = tutorial_state
    /\ line' = <<":", "d", "o", "n", "e">> =>
           tutorial_state' = [active |-> FALSE, index |-> tutorial_state.index]

\* C20: after any sequence of `:tutorial`, `:next`, `:repeat` and `:done`
\* the step index satisfies 0 <= index < number of steps; `:tutorial` sets
\* active and index 0; `:next` while active increases the index by one except
\* at the last step, where the index stays unchanged; `:next` and `:repeat`
\* while inactive change nothing; `:done` only clears the active flag.
C20_TutorialMachine ==
    /\ [](tutorial_state.index \in 0..(C20_Steps - 1))
    /\ [][prompts' = prompts + 1 => C20_Command]_vars

\* `:next` was given at the last step
C20_Witness ==
    /\ pc \in {"cli", "repl"}
    /\ line = <<":", "n", "e", "x", "t">>
    /\ tutorial_state = [active |-> TRUE, index |-> C20_Steps - 1]
    /\ printed = [k |-> "text", text |-> "tutorial complete"]

(***************************************************************************)
(* Error hints (src/src/calc/diagnostics.py)                               *)
(*                                                                         *)
(* _print_error prints the message of an exception and the hint that       *)
(* hint_for_error finds for it.  The messages are texts here, as they are  *)
(* searched for their words.                                               *)
(***************************************************************************)
\* str.lower() on one character
LowerOf(c) ==
    IF c \notin Upper THEN c
    ELSE
        CASE c = "A" -> "a"
          [] c = "B" -> "b"
          [] c = "C" -> "c"
          [] c = "D" -> "d"
          [] c = "E" -> "e"
          [] c = "F" -> "f"
          [] c = "G" -> "g"
          [] c = "H" -> "h"
          [] c = "I" -> "i"
          [] c = "J" -> "j"
          [] c = "K" -> "k"
          [] c = "L" -> "l"
          [] c = "M" -> "m"
          [] c = "N" -> "n"
          [] c = "O" -> "o"
          [] c = "P" -> "p"
          [] c = "Q" -> "q"
          [] c = "R" -> "r"
          [] c = "S" -> "s"
          [] c = "T" -> "t"
          [] c = "U" -> "u"
          [] c = "V" -> "v"
          [] c = "W" -> "w"
          [] c = "X" -> "x"
          [] c = "Y" -> "y"
          [] c = "Z" -> "z"

\* str.lower()
str_lower(s) == [i \in 1..Len(s) |-> LowerOf(s[i])]

\* p in s
Contains(s, p) == \E i \in 1..(Len(s) - Len(p) + 1) : PrefixAt(s, i, p)

\* re.sub(r"\s+", "", s)
RemoveWhitespace(s) == SelectSeq(s, LAMBDA c : c \notin Space)

\* the characters of an identifier in the order of their code points
CodeOrder ==
    <<"0", "1", "2", "3", "4", "5", "6", "7", "8", "9", "A", "B", "C", "D",
      "E", "F", "G", "H", "I", "J", "K", "L", "M", "N", "O", "P", "Q", "R",
      "S", "T", "U", "V", "W", "X", "Y", "Z", "_", "a", "b", "c", "d", "e",
      "f", "g", "h", "i", "j", "k", "l", "m", "n", "o", "p", "q", "r", "s",
      "t", "u", "v", "w", "x", "y", "z">>

Ord(c) == CHOOSE i \in 1..Len(CodeOrder) : CodeOrder[i] = c

\* a < b for two identifiers
TextLess(a, b) ==
    \E i \in 1..Len(b) :
        /\ i <= Len(a) + 1
        /\ \A k \in 1..(i - 1) : a[k] = b[k]
        /\ (i = Len(a) + 1 \/ Ord(a[i]) < Ord(b[i]))

\* sorted(keys)[0]
FirstSorted(keys) == CHOOSE k \in keys : \A o \in keys : o = k \/ TextLess(k, o)

\* 8 * SequenceMatcher(None, k, id).ratio() * (len(k) + len(id)) / 2 for an
\* id of one character, which is the only kind diagnostics.py asks about:
\* one character matches at most
MatchedEighths(id, k) == IF \E i \in 1..Len(k) : k[i] = id[1] THEN 8 ELSE 0

\* get_close_matches(id, keys, n=1, cutoff=0.75): the keys whose ratio
\* 2 * matched / (len(k) + len(id)) is at least 3/4, the best one first
get_close_matches(id, keys) ==
    LET close == { k \in keys : MatchedEighths(id, k) >= 3 * (Len(k) + Len(id)) }
    IN  IF close = {} THEN <<>>
        ELSE << CHOOSE k \in close : \A o \in close :
                    \/ o = k
                    \/ Len(k) < Len(o)
                    \/ (Len(k) = Len(o) /\ TextLess(o, k)) >>

\* a hint, and a name that reserved_name_suggestion proposes
Hint(s) == [k |-> "hint", text |-> s]
Suggested(id) == [k |-> "str", text |-> id]

\* core.py:303-316
reserved_name_suggestion(id, S) ==
    IF S = None \/ Keys(S) = {} THEN None
    ELSE LET prefix_matches == { k \in Keys(S) : StartsWith(k, id) /\ k # id }
         IN  IF prefix_matches # {} THEN Suggested(FirstSorted(prefix_matches))
             ELSE IF get_close_matches(id, Keys(S)) = <<>> THEN None
             ELSE Suggested(get_close_matches(id, Keys(S))[1])

\* core.py:495: the message of the reserved-name error
ReservedNameMessage(id) ==
    <<"c", "a", "n", "n", "o", "t", " ", "a", "s", "s", "i", "g", "n", " ",
      "r", "e", "s", "e", "r", "v", "e", "d", " ", "n", "a", "m", "e", ":",
      " ">> \o id

\* diagnostics.py:8-16
should_print_wolfram_hint(message) ==
    /\ ~Contains(str_lower(message), <<"c", "a", "n", "n", "o", "t", " ", "a", "s", "s", "i",
                     "g", "n", " ", "r", "e", "s", "e", "r", "v", "e", "d",
                     " ", "n", "a", "m", "e">>)
    /\ ~Contains(str_lower(message), <<"i", "n", "t", "e", "g", "e", "r", " ", "p", "o", "w",
                     "e", "r", " ", "t", "o", "o", " ", "l", "a", "r", "g",
                     "e", " ", "t", "o", " ", "e", "v", "a", "l", "u", "a",
                     "t", "e", " ", "e", "x", "a", "c", "t", "l", "y">>)
    /\ ~Contains(str_lower(message), <<"f", "a", "c", "t", "o", "r", "i", "a", "l", " ", "i",
                     "n", "p", "u", "t", " ", "t", "o", "o", " ", "l", "a",
                     "r", "g", "e", " ", "t", "o", " ", "e", "v", "a", "l",
                     "u", "a", "t", "e", " ", "e", "x", "a", "c", "t", "l",
                     "y">>)

\* diagnostics.py:39-54: the depth after the first i characters of inner
RECURSIVE EqDepth(_, _)
EqDepth(inner, i) ==
    IF i = 0 THEN 0
    ELSE IF inner[i] = "(" THEN EqDepth(inner, i - 1) + 1
    ELSE IF inner[i] = ")" THEN Max({0, EqDepth(inner, i - 1) - 1})
    ELSE EqDepth(inner, i - 1)

eq_has_top_level_comma(expr) ==
    IF ~StartsWith(Strip(expr), <<"E", "q", "(">>) THEN TRUE
    ELSE LET tail == SubSeq(Strip(expr), 4, Len(Strip(expr)))
             inner == IF EndsWith(tail, <<")">>) THEN SubSeq(tail, 1, Len(tail) - 1)
                      ELSE tail
         IN  \E i \in 1..Len(inner) : inner[i] = "," /\ EqDepth(inner, i - 1) = 0

StrictLeft == Digit \cup {")"}
StrictRight == Letter \cup {"("}

\* (?<=[0-9)])\s+(?=[A-Za-z(]) with its replacement
StrictGapPattern(s, i) ==
    IF /\ At(s, i - 1) \in StrictLeft
       /\ At(s, i) \in Space
       /\ At(s, SkipWs(s, i)) \in StrictRight
    THEN [e |-> SkipWs(s, i), r |-> <<"*">>]
    ELSE NoMatch

\* (?<=[0-9)])(?=[A-Za-z(]) matches the empty text in front of index i
StrictJoinAt(s, i) == At(s, i - 1) \in StrictLeft /\ At(s, i) \in StrictRight

\* re.sub of a pattern that matches empty texts only: the replacement goes in
\* front of every index where it matches
SubEmpty(s, Hit(_, _), r) ==
    Concat([i \in 1..Len(s) |-> IF Hit(s, i) THEN r \o <<s[i]>> ELSE <<s[i]>>])

InsertStrictJoins(s) == SubEmpty(s, StrictJoinAt, <<"*">>)

\* line 60 alone
Mut_suggest_joins_only(expr) == InsertStrictJoins(expr)

\* diagnostics.py:57-61
_suggest_strict_ode_multiplication(expr) ==
    Only({ InsertStrictJoins(fixed) : fixed \in { Sub(expr, StrictGapPattern) } })

\* re.search(r"\bode\b", expr, flags=re.IGNORECASE)
OdeWordSearch(expr) ==
    \E i \in 1..Len(expr) :
        /\ PrefixAt(str_lower(expr), i, <<"o", "d", "e">>)
        /\ WordBoundary(expr, i)
        /\ WordBoundary(expr, i + 3)

\* re.search(r"\bd[A-Za-z0-9_]+/d[A-Za-z0-9_]+\b", s): a word that starts
\* with d and has a character after it, and after the slash another one
LeibnizWordSearch(s) ==
    \E i \in 1..Len(s) : \E j \in (i + 2)..Len(s) :
        /\ WordBoundary(s, i)
        /\ s[i] = "d"
        /\ \A k \in (i + 1)..(j - 1) : s[k] \in WordChar
        /\ s[j] = "/"
        /\ At(s, j + 1) = "d"
        /\ At(s, j + 2) \in WordChar

\* re.search(r"name '([^']+)' is not defined", message).group(1), <<>> when
\* there is no match
MissingNamePattern(s, i) ==
    IF Lit(s, RunNot(s, Lit(s, i, <<"n", "a", "m", "e", " ", "'">>), {"'"}),
           <<"'", " ", "i", "s", " ", "n", "o", "t", " ", "d", "e", "f",
             "i", "n", "e", "d">>) > 0
    THEN [e |-> 1, r |-> Slice(s, i + 6, RunNot(s, i + 6, {"'"}))]
    ELSE NoMatch

MissingName(message) ==
    IF Search(message, Matches(message, MissingNamePattern))
    THEN Matches(message, MissingNamePattern)[FirstMatch(message, 1,
             Matches(message, MissingNamePattern))].r
    ELSE <<>>

HintDerivative ==
    Hint(<<"d", "e", "r", "i", "v", "a", "t", "i", "v", "e", " ", "s", "y",
           "n", "t", "a", "x", ":", " ", "d", "(", "e", "x", "p", "r", ",",
           " ", "v", "a", "r", ")", " ", "o", "r", " ", "d", "(", "s", "i",
           "n", "(", "x", ")", ")", "/", "d", "x", " ", "o", "r", " ", "d",
           "f", "(", "t", ")", "/", "d", "t">>)

HintMatrix ==
    Hint(<<"m", "a", "t", "r", "i", "x", " ", "s", "y", "n", "t", "a", "x",
           ":", " ", "M", "a", "t", "r", "i", "x", "(", "[", "[", "1", ",",
           "2", "]", ",", "[", "3", ",", "4", "]", "]", ")">>)

\* lines 103-106
HintOdeMultiplication(suggested) ==
    Hint(<<"u", "s", "e", " ", "e", "x", "p", "l", "i", "c", "i", "t", " ",
           "m", "u", "l", "t", "i", "p", "l", "i", "c", "a", "t", "i", "o",
           "n", " ", "i", "n", " ", "O", "D", "E", "s", " ", "(", "e", ".",
           "g", ".", " ", "2", "0", "*", "y", ")", ";", " ", "t", "r", "y",
           ":", " ">>
         \o suggested
         \o <<" ", ";", " ", "o", "r", " ", "r", "u", "n", " ", "w", "i",
              "t", "h", "o", "u", "t", " ", "-", "-", "s", "t", "r", "i",
              "c", "t">>)

\* line 122
HintReservedF(suggestion) ==
    Hint(<<"'", "f", "'", " ", "i", "s", " ", "r", "e", "s", "e", "r", "v",
           "e", "d", " ", "f", "o", "r", " ", "f", "u", "n", "c", "t", "i",
           "o", "n", " ", "n", "o", "t", "a", "t", "i", "o", "n", " ", "i",
           "n", " ", "O", "D", "E", "s", ";", " ", "t", "r", "y", " ", "'">>
         \o suggestion \o <<"'">>)

\* line 123
HintReservedFixed ==
    Hint(<<"'", "f", "'", " ", "i", "s", " ", "r", "e", "s", "e", "r", "v",
           "e", "d", " ", "f", "o", "r", " ", "f", "u", "n", "c", "t", "i",
           "o", "n", " ", "n", "o", "t", "a", "t", "i", "o", "n", " ", "i",
           "n", " ", "O", "D", "E", "s", ";", " ", "c", "h", "o", "o", "s",
           "e", " ", "a", "n", "o", "t", "h", "e", "r", " ", "v", "a", "r",
           "i", "a", "b", "l", "e", " ", "n", "a", "m", "e", " ", "(", "e",
           ".", "g", ".", " ", "f", "f", ")">>)

\* line 124
HintReservedGeneric ==
    Hint(<<"t", "h", "a", "t", " ", "n", "a", "m", "e", " ", "i", "s", " ",
           "r", "e", "s", "e", "r", "v", "e", "d", " ", "b", "y", " ", "p",
           "h", "i", "l", " ", "i", "n", "t", "e", "r", "n", "a", "l", "s",
           ";", " ", "c", "h", "o", "o", "s", "e", " ", "a", " ", "d", "i",
           "f", "f", "e", "r", "e", "n", "t", " ", "v", "a", "r", "i", "a",
           "b", "l", "e", " ", "n", "a", "m", "e">>)

\* lines 68-89: the hints for the helper functions
HelperHint(text, compact_expr) ==
    IF /\ StartsWith(compact_expr, <<"g", "c", "d", "(">>)
       /\ (\/ Contains(text, <<"t", "a", "k", "e", "s", " ", "2", " ", "a",
                            "r", "g", "u", "m", "e", "n", "t", "s", " ",
                            "o", "r", " ", "a", " ", "s", "e", "q", "u",
                            "e", "n", "c", "e", " ", "o", "f", " ", "a",
                            "r", "g", "u", "m", "e", "n", "t", "s">>)
           \/ Contains(text, <<"p", "o", "s", "i", "t", "i", "o", "n", "a",
                            "l", " ", "a", "r", "g", "u", "m", "e", "n",
                            "t">>))
    THEN Hint(<<"g", "c", "d", " ", "s", "y", "n", "t", "a", "x", ":", " ",
                "g", "c", "d", "(", "a", ",", " ", "b", ")", " ", "(", "f",
                "o", "r", " ", "e", "x", "a", "m", "p", "l", "e", " ", "g",
                "c", "d", "(", "8", ",", " ", "1", "2", ")", ")">>)
    ELSE IF /\ StartsWith(compact_expr, <<"l", "c", "m", "(">>)
            /\ (\/ Contains(text, <<"t", "a", "k", "e", "s", " ", "2", " ", "a",
                            "r", "g", "u", "m", "e", "n", "t", "s", " ",
                            "o", "r", " ", "a", " ", "s", "e", "q", "u",
                            "e", "n", "c", "e", " ", "o", "f", " ", "a",
                            "r", "g", "u", "m", "e", "n", "t", "s">>)
                \/ Contains(text, <<"p", "o", "s", "i", "t", "i", "o", "n", "a",
                            "l", " ", "a", "r", "g", "u", "m", "e", "n",
                            "t">>))
    THEN Hint(<<"l", "c", "m", " ", "s", "y", "n", "t", "a", "x", ":", " ",
                "l", "c", "m", "(", "a", ",", " ", "b", ")", " ", "(", "f",
                "o", "r", " ", "e", "x", "a", "m", "p", "l", "e", " ", "l",
                "c", "m", "(", "8", ",", " ", "1", "2", ")", ")">>)
    ELSE IF /\ StartsWith(compact_expr, <<"i", "s", "p", "r", "i", "m", "e", "(">>)
            /\ Contains(text, <<"i", "s", " ", "n", "o", "t", " ", "a", "n",
                            " ", "i", "n", "t", "e", "g", "e", "r">>)
    THEN Hint(<<"i", "s", "p", "r", "i", "m", "e", " ", "e", "x", "p", "e",
                "c", "t", "s", " ", "a", "n", " ", "i", "n", "t", "e", "g",
                "e", "r", " ", "n", " ", "(", "f", "o", "r", " ", "e", "x",
                "a", "m", "p", "l", "e", " ", "i", "s", "p", "r", "i", "m",
                "e", "(", "1", "0", "1", ")", ")">>)
    ELSE IF /\ StartsWith(compact_expr, <<"i", "s", "p", "r", "i", "m", "e", "(">>)
            /\ Contains(text, <<"p", "o", "s", "i", "t", "i", "o", "n", "a",
                            "l", " ", "a", "r", "g", "u", "m", "e", "n",
                            "t">>)
    THEN Hint(<<"i", "s", "p", "r", "i", "m", "e", " ", "s", "y", "n", "t",
                "a", "x", ":", " ", "i", "s", "p", "r", "i", "m", "e", "(",
                "n", ")">>)
    ELSE IF /\ StartsWith(compact_expr,
                          <<"f", "a", "c", "t", "o", "r", "i", "n", "t", "(">>)
            /\ Contains(text, <<"i", "s", " ", "n", "o", "t", " ", "a", "n",
                            " ", "i", "n", "t", "e", "g", "e", "r">>)
    THEN Hint(<<"f", "a", "c", "t", "o", "r", "i", "n", "t", " ", "e", "x",
                "p", "e", "c", "t", "s", " ", "a", "n", " ", "i", "n", "t",
                "e", "g", "e", "r", " ", "n", " ", "(", "f", "o", "r", " ",
                "e", "x", "a", "m", "p", "l", "e", " ", "f", "a", "c", "t",
                "o", "r", "i", "n", "t", "(", "8", "4", ")", ")">>)
    ELSE IF /\ StartsWith(compact_expr,
                          <<"f", "a", "c", "t", "o", "r", "i", "n", "t", "(">>)
            /\ Contains(text, <<"p", "o", "s", "i", "t", "i", "o", "n", "a",
                            "l", " ", "a", "r", "g", "u", "m", "e", "n",
                            "t">>)
    THEN Hint(<<"f", "a", "c", "t", "o", "r", "i", "n", "t", " ", "s", "y",
                "n", "t", "a", "x", ":", " ", "f", "a", "c", "t", "o", "r",
                "i", "n", "t", "(", "n", ")">>)
    ELSE IF /\ StartsWith(compact_expr, <<"n", "u", "m", "(">>)
            /\ Contains(text, <<"p", "o", "s", "i", "t", "i", "o", "n", "a",
                            "l", " ", "a", "r", "g", "u", "m", "e", "n",
                            "t">>)
    THEN Hint(<<"n", "u", "m", " ", "s", "y", "n", "t", "a", "x", ":", " ",
                "n", "u", "m", "(", "e", "x", "p", "r", ")", " ", "(", "f",
                "o", "r", " ", "e", "x", "a", "m", "p", "l", "e", " ", "n",
                "u", "m", "(", "3", "/", "1", "4", ")", ")">>)
    ELSE IF /\ StartsWith(compact_expr, <<"d", "e", "n", "(">>)
            /\ Contains(text, <<"p", "o", "s", "i", "t", "i", "o", "n", "a",
                            "l", " ", "a", "r", "g", "u", "m", "e", "n",
                            "t">>)
    THEN Hint(<<"d", "e", "n", " ", "s", "y", "n", "t", "a", "x", ":", " ",
                "d", "e", "n", "(", "e", "x", "p", "r", ")", " ", "(", "f",
                "o", "r", " ", "e", "x", "a", "m", "p", "l", "e", " ", "d",
                "e", "n", "(", "3", "/", "1", "4", ")", ")">>)
    ELSE None

\* lines 97-117: the hint for "invalid syntax"
SyntaxHint(expr) ==
    IF /\ expr # <<>>
       /\ OdeWordSearch(expr)
       /\ _suggest_strict_ode_multiplication(expr) # expr
    THEN HintOdeMultiplication(_suggest_strict_ode_multiplication(expr))
    ELSE IF /\ expr # <<>>
            /\ StartsWith(Strip(expr), <<"E", "q", "(">>)
            /\ ~eq_has_top_level_comma(expr)
    THEN Hint(<<"E", "q", " ", "s", "y", "n", "t", "a", "x", ":", " ", "E",
                "q", "(", "l", "h", "s", ",", " ", "r", "h", "s", ")", ",",
                " ", "f", "o", "r", " ", "e", "x", "a", "m", "p", "l", "e",
                " ", "E", "q", "(", "d", "(", "y", "(", "x", ")", ",", " ",
                "x", ")", ",", " ", "y", "(", "x", ")", ")">>)
    ELSE IF /\ expr # <<>>
            /\ Contains(RemoveWhitespace(expr), <<"d", "s", "o", "l", "v", "e", "(">>)
            /\ ~Contains(RemoveWhitespace(expr), <<"e", "q", "(">>)
    THEN Hint(<<"d", "s", "o", "l", "v", "e", " ", "e", "x", "p", "e", "c",
                "t", "s", " ", "a", "n", " ", "e", "q", "u", "a", "t", "i",
                "o", "n", ":", " ", "u", "s", "e", " ", "d", "s", "o", "l",
                "v", "e", "(", "E", "q", "(", ".", ".", ".", ")", ",", " ",
                "y", "(", "x", ")", ")">>)
    ELSE IF expr # <<>> /\ Contains(expr, FRAC)
    THEN Hint(<<"L", "a", "T", "e", "X", " ", "f", "r", "a", "c", "t", "i",
                "o", "n", " ", "s", "y", "n", "t", "a", "x", ":", " ", BS,
                "f", "r", "a", "c", "{", "n", "u", "m", "e", "r", "a", "t",
                "o", "r", "}", "{", "d", "e", "n", "o", "m", "i", "n", "a",
                "t", "o", "r", "}">>)
    ELSE IF /\ expr # <<>>
            /\ (\/ Contains(RemoveWhitespace(expr), <<"d", "(">>)
                \/ LeibnizWordSearch(RemoveWhitespace(expr)))
    THEN HintDerivative
    ELSE IF /\ expr # <<>>
            /\ Contains(str_lower(RemoveWhitespace(expr)),
                        <<"m", "a", "t", "r", "i", "x", "(">>)
    THEN HintMatrix
    ELSE Hint(<<"c", "h", "e", "c", "k", " ", "c", "o", "m", "m", "a", "s",
                " ", "a", "n", "d", " ", "b", "r", "a", "c", "k", "e", "t",
                "s", ";", " ", "t", "r", "y", " ", ":", "e", "x", "a", "m",
                "p", "l", "e", "s", " ", "f", "o", "r", " ", "w", "o", "r",
                "k", "i", "n", "g", " ", "p", "a", "t", "t", "e", "r", "n",
                "s">>)

\* lines 118-124: the hint for "cannot assign reserved name:"
ReservedHint(text, S) ==
    IF ~Contains(text, <<"c", "a", "n", "n", "o", "t", " ", "a", "s", "s", "i",
                      "g", "n", " ", "r", "e", "s", "e", "r", "v", "e", "d",
                      " ", "n", "a", "m", "e", ":", " ", "f">>)
    THEN HintReservedGeneric
    ELSE IF reserved_name_suggestion(<<"f">>, S) # None
    THEN HintReservedF(reserved_name_suggestion(<<"f">>, S).text)
    ELSE HintReservedFixed

\* lines 125-132: the hint for a NameError
NameHint(message, expr) ==
    IF /\ MissingName(message) # <<>>
       /\ \A i \in 1..Len(MissingName(message)) : MissingName(message)[i] \in Letter
       /\ MissingName(message)[1] \in Upper
    THEN Hint(<<"f", "o", "r", " ", "s", "y", "m", "b", "o", "l", "i", "c",
                " ", "c", "o", "e", "f", "f", "i", "c", "i", "e", "n", "t",
                "s", ",", " ", "u", "s", "e", " ", "i", "n", "l", "i", "n",
                "e", " ", "n", "a", "m", "e", "s", " ", "l", "i", "k", "e",
                " ", "S", "(", "'", "A", "'", ")", ",", " ", "S", "(", "'",
                "B", "'", ")", ",", " ", "S", "(", "'", "C", "'", ")">>)
    ELSE IF /\ expr # <<>>
            /\ (\/ Contains(expr, <<"/", "d">>)
                \/ StartsWith(Strip(expr), <<"d">>))
    THEN HintDerivative
    ELSE Hint(<<"u", "s", "e", " ", "o", "n", "e", " ", "o", "f", ":", " ",
                "x", " ", "y", " ", "z", " ", "t", " ", "p", "i", " ", "e",
                " ", "f", ",", " ", "p", "l", "u", "s", " ", "h", "e", "l",
                "p", "e", "r", " ", "f", "u", "n", "c", "t", "i", "o", "n",
                "s", " ", "l", "i", "k", "e", " ", "s", "y", "m", "b", "o",
                "l", "s", "(", ".", ".", ".", ")">>)

\* lines 133-157
LateHint(text, expr) ==
    IF Contains(text, <<"d", "s", "o", "l", "v", "e", "(", ")", " ", "a", "n",
                     "d", " ", "c", "l", "a", "s", "s", "i", "f", "y", "_",
                     "o", "d", "e", "(", ")", " ", "o", "n", "l", "y", " ",
                     "w", "o", "r", "k", " ", "w", "i", "t", "h", " ", "f",
                     "u", "n", "c", "t", "i", "o", "n", "s", " ", "o", "f",
                     " ", "o", "n", "e", " ", "v", "a", "r", "i", "a", "b",
                     "l", "e">>)
    THEN Hint(<<"f", "o", "r", " ", "O", "D", "E", "s", ",", " ", "u", "s",
                "e", " ", "f", "u", "n", "c", "t", "i", "o", "n", " ", "n",
                "o", "t", "a", "t", "i", "o", "n", ":", " ", "y", "(", "x",
                ")", " ", "a", "n", "d", " ", "d", "s", "o", "l", "v", "e",
                "(", "E", "q", "(", "d", "(", "y", "(", "x", ")", ",", " ",
                "x", ")", ",", " ", ".", ".", ".", ")", ",", " ", "y", "(",
                "x", ")", ")">>)
    ELSE IF Contains(text, <<"m", "i", "x", "e", "d", " ", "d", "e", "p", "e",
                          "n", "d", "e", "n", "t", " ", "v", "a", "r", "i",
                          "a", "b", "l", "e", " ", "n", "o", "t", "a", "t",
                          "i", "o", "n">>)
    THEN Hint(<<"i", "n", " ", "O", "D", "E", " ", "i", "n", "p", "u", "t",
                ",", " ", "u", "s", "e", " ", "o", "n", "e", " ", "d", "e",
                "p", "e", "n", "d", "e", "n", "t", " ", "f", "o", "r", "m",
                " ", "c", "o", "n", "s", "i", "s", "t", "e", "n", "t", "l",
                "y", " ", "(", "y", " ", "w", "i", "t", "h", " ", "y", "'",
                "/", "d", "y", "/", "d", "x", ",", " ", "o", "r", " ", "e",
                "x", "p", "l", "i", "c", "i", "t", " ", "y", "(", "x", ")",
                ")">>)
    ELSE IF Contains(text, <<"i", "n", "i", "t", "i", "a", "l", " ", "c", "o",
                          "n", "d", "i", "t", "i", "o", "n", " ", "r", "e",
                          "d", "u", "c", "e", "d", " ", "t", "o", " ", "a",
                          " ", "b", "o", "o", "l", "e", "a", "n">>)
    THEN Hint(<<"t", "h", "e", " ", "I", "C", " ", "s", "i", "m", "p", "l",
                "i", "f", "i", "e", "d", " ", "b", "e", "f", "o", "r", "e",
                " ", "s", "o", "l", "v", "i", "n", "g", ";", " ", "u", "s",
                "e", " ", "e", "q", "u", "a", "t", "i", "o", "n", "s", " ",
                "l", "i", "k", "e", " ", "y", "(", "0", ")", "=", "1", " ",
                "o", "r", " ", "y", "'", "(", "0", ")", "=", "0">>)
    ELSE IF /\ Contains(text, <<"i", "n", "i", "t", "i", "a", "l", " ", "c",
                             "o", "n", "d", "i", "t", "i", "o", "n", " ",
                             "m", "u", "s", "t", " ", "b", "e", " ", "a",
                             "n", " ", "e", "q", "u", "a", "t", "i", "o",
                             "n">>)
            /\ expr # <<>>
            /\ (\/ Contains(RemoveWhitespace(expr),
                            <<"d", "(", "y", ",", "x", ")", ".", "s", "u", "b", "s">>)
                \/ Contains(RemoveWhitespace(expr),
                            <<"d", "(", "f", ",", "x", ")", ".", "s", "u", "b", "s">>))
    THEN Hint(<<"u", "s", "e", " ", "y", "'", "(", "0", ")", "=", ".", ".",
                ".", " ", "o", "r", " ", "d", "(", "y", "(", "x", ")", ",",
                " ", "x", ")", ".", "s", "u", "b", "s", "(", "x", ",", " ",
                "0", ")", "=", ".", ".", ".", " ", "f", "o", "r", " ", "d",
                "e", "r", "i", "v", "a", "t", "i", "v", "e", " ", "i", "n",
                "i", "t", "i", "a", "l", " ", "c", "o", "n", "d", "i", "t",
                "i", "o", "n", "s">>)
    ELSE IF /\ Contains(text, <<"d", "a", "t", "a", " ", "t", "y", "p", "e",
                             " ", "n", "o", "t", " ", "u", "n", "d", "e",
                             "r", "s", "t", "o", "o", "d">>)
            /\ expr # <<>>
            /\ Contains(str_lower(expr), <<"m", "a", "t", "r", "i", "x", "(">>)
    THEN HintMatrix
    ELSE IF Contains(text, <<"b", "l", "o", "c", "k", "e", "d", " ", "t", "o",
                          "k", "e", "n">>)
    THEN Hint(<<"r", "e", "m", "o", "v", "e", " ", "b", "l", "o", "c", "k",
                "e", "d", " ", "p", "a", "t", "t", "e", "r", "n", "s", " ",
                "l", "i", "k", "e", " ", "'", "_", "_", "'", ",", " ", "'",
                ";", "'", ",", " ", "o", "r", " ", "n", "e", "w", "l", "i",
                "n", "e", "s">>)
    ELSE IF Contains(text, <<"i", "n", "t", "e", "g", "e", "r", " ", "p", "o",
                          "w", "e", "r", " ", "t", "o", "o", " ", "l", "a",
                          "r", "g", "e", " ", "t", "o", " ", "e", "v", "a",
                          "l", "u", "a", "t", "e", " ", "e", "x", "a", "c",
                          "t", "l", "y">>)
    THEN Hint(<<"p", "o", "w", "e", "r", " ", "t", "o", "o", " ", "l", "a",
                "r", "g", "e", " ", "t", "o", " ", "e", "x", "p", "a", "n",
                "d", " ", "e", "x", "a", "c", "t", "l", "y", ";", " ", "s",
                "i", "m", "p", "l", "i", "f", "y", " ", "t", "o", " ", "c",
                "a", "n", "c", "e", "l", " ", "f", "i", "r", "s", "t", " ",
                "(", "f", "o", "r", " ", "e", "x", "a", "m", "p", "l", "e",
                " ", "1", "0", "^", "N", " ", "+", " ", "1", " ", "-", " ",
                "1", "0", "^", "N", ")", ",", " ", "o", "r", " ", "u", "s",
                "e", " ", "a", " ", "s", "m", "a", "l", "l", "e", "r", " ",
                "e", "x", "p", "o", "n", "e", "n", "t">>)
    ELSE IF Contains(text, <<"f", "a", "c", "t", "o", "r", "i", "a", "l", " ",
                          "i", "n", "p", "u", "t", " ", "t", "o", "o", " ",
                          "l", "a", "r", "g", "e", " ", "t", "o", " ", "e",
                          "v", "a", "l", "u", "a", "t", "e", " ", "e", "x",
                          "a", "c", "t", "l", "y">>)
    THEN Hint(<<"f", "a", "c", "t", "o", "r", "i", "a", "l", " ", "g", "r",
                "o", "w", "s", " ", "v", "e", "r", "y", " ", "f", "a", "s",
                "t", ";", " ", "u", "s", "e", " ", "a", " ", "s", "m", "a",
                "l", "l", "e", "r", " ", "n", " ", "o", "r", " ", "a", " ",
                "s", "y", "m", "b", "o", "l", "i", "c", " ", "f", "o", "r",
                "m">>)
    ELSE IF Contains(text, <<"e", "m", "p", "t", "y", " ", "e", "x", "p", "r",
                          "e", "s", "s", "i", "o", "n">>)
    THEN Hint(<<"e", "n", "t", "e", "r", " ", "a", " ", "m", "a", "t", "h",
                " ", "e", "x", "p", "r", "e", "s", "s", "i", "o", "n", ",",
                " ", "o", "r", " ", "u", "s", "e", " ", ":", "e", "x", "a",
                "m", "p", "l", "e", "s">>)
    ELSE None

\* lines 91-157, text being message.lower()
HintFor(text, message, expr, S) ==
    IF \/ StartsWith(text, <<"l", "i", "n", "a", "l", "g", " ">>)
       \/ StartsWith(text, <<"u", "n", "k", "n", "o", "w", "n", " ", "l",
                            "i", "n", "a", "l", "g", " ">>)
    THEN Hint(<<"l", "i", "n", "a", "l", "g", " ", "s", "y", "n", "t", "a",
                "x", ":", " ", "'", "l", "i", "n", "a", "l", "g", " ", "s",
                "o", "l", "v", "e", " ", "A", "=", "[", "[", ".", ".", ".",
                "]", "]", " ", "b", "=", "[", ".", ".", ".", "]", "'", " ",
                "o", "r", " ", "'", "l", "i", "n", "a", "l", "g", " ", "r",
                "r", "e", "f", " ", "A", "=", "[", "[", ".", ".", ".", "]",
                "]", "'", ";", " ", "u", "s", "e", " ", ":", "l", "i", "n",
                "a", "l", "g">>)
    ELSE IF Contains(text, <<"u", "n", "e", "x", "p", "e", "c", "t", "e", "d",
                          " ", "e", "o", "f">>)
    THEN IF /\ expr # <<>>
            /\ (\/ Contains(expr, <<"/", "d">>)
                \/ StartsWith(Strip(expr), <<"d", "(">>))
         THEN HintDerivative
         ELSE Hint(<<"c", "h", "e", "c", "k", " ", "m", "i", "s", "s", "i",
                     "n", "g", " ", "c", "l", "o", "s", "i", "n", "g", " ",
                     "'", ")", "'", " ", "o", "r", " ", "u", "n", "m", "a",
                     "t", "c", "h", "e", "d", " ", "q", "u", "o", "t", "e">>)
    ELSE IF Contains(text, <<"i", "n", "v", "a", "l", "i", "d", " ", "s", "y",
                          "n", "t", "a", "x">>)
    THEN SyntaxHint(expr)
    ELSE IF Contains(text, <<"c", "a", "n", "n", "o", "t", " ", "a", "s", "s",
                          "i", "g", "n", " ", "r", "e", "s", "e", "r", "v",
                          "e", "d", " ", "n", "a", "m", "e", ":">>)
    THEN ReservedHint(text, S)
    ELSE IF /\ Contains(text, <<"n", "a", "m", "e", " ", "'">>)
            /\ Contains(text, <<"i", "s", " ", "n", "o", "t", " ", "d", "e",
                             "f", "i", "n", "e", "d">>)
    THEN NameHint(message, expr)
    ELSE LateHint(text, expr)

\* diagnostics.py:64-157; expr is <<>> when the caller has none
hint_for_error(message, expr, S) ==
    IF HelperHint(str_lower(message), str_lower(RemoveWhitespace(expr))) # None
    THEN HelperHint(str_lower(message), str_lower(RemoveWhitespace(expr)))
    ELSE HintFor(str_lower(message), message, expr, S)

(***************************************************************************)
(* _print_error (src/src/calc/cli.py:235-246) on bounded inputs            *)
(***************************************************************************)
MaxHintBody == 4

HintAlphabet == {"2", ")", " ", "y", "("}

HintBodies == UNION { [1..n -> HintAlphabet] : n \in 0..MaxHintBody }

\* the words in front of the body: the alias, in two cases, and a word that
\* only ends in `ode`
HintPrefixes ==
    { OdePrefix, <<"O", "D", "E", " ">>, <<"n", "o", "d", "e", " ">> }

SyntaxMessage ==
    <<"i", "n", "v", "a", "l", "i", "d", " ", "s", "y", "n", "t", "a", "x",
      " ", "(", "<", "s", "t", "r", "i", "n", "g", ">", ",", " ", "l", "i",
      "n", "e", " ", "1", ")">>

EofMessage ==
    <<"u", "n", "e", "x", "p", "e", "c", "t", "e", "d", " ", "E", "O", "F",
      " ", "w", "h", "i", "l", "e", " ", "p", "a", "r", "s", "i", "n", "g",
      " ", "(", "<", "s", "t", "r", "i", "n", "g", ">", ",", " ", "l", "i",
      "n", "e", " ", "1", ")">>

SyntaxFailures ==
    { [message |-> m, expr |-> p \o b, session |-> None] :
        m \in {SyntaxMessage, EofMessage}, p \in HintPrefixes, b \in HintBodies }

\* the sessions of the reserved-name failures: none, an empty one, and
\* bindings made by earlier lines
HintSessions ==
    { None, Dict(EmptyItems) }
      \cup { Dict([n \in ks |-> PyInt(1)]) :
               ks \in { {<<"a">>}, {<<"f", "f">>}, {<<"a", "f">>},
                        {<<"f", "b">>, <<"f", "a">>, ANS},
                        {<<"f", "_", "1">>, <<"f", "1">>, <<"f", "F">>} } }

ReservedFailures ==
    { [message |-> ReservedNameMessage(id), expr |-> id \o <<" ", "=", " ", "1">>,
       session |-> S] : id \in LOCALS_DICT, S \in HintSessions }

OtherFailures ==
    { [message |-> m, expr |-> e, session |-> None] :
        m \in { <<"n", "a", "m", "e", " ", "'", "A", "'", " ", "i", "s",
                  " ", "n", "o", "t", " ", "d", "e", "f", "i", "n", "e",
                  "d">>,
                <<"n", "a", "m", "e", " ", "'", "q", "'", " ", "i", "s",
                  " ", "n", "o", "t", " ", "d", "e", "f", "i", "n", "e",
                  "d">>,
                <<"e", "m", "p", "t", "y", " ", "e", "x", "p", "r", "e",
                  "s", "s", "i", "o", "n">>,
                <<"b", "l", "o", "c", "k", "e", "d", " ", "t", "o", "k",
                  "e", "n", " ", "i", "n", " ", "e", "x", "p", "r", "e",
                  "s", "s", "i", "o", "n">>,
                <<"d", "i", "v", "i", "s", "i", "o", "n", " ", "b", "y",
                  " ", "z", "e", "r", "o">> },
        e \in { <<>>, <<"d", "y", "/", "d", "x">>, <<"A", "*", "x">> } }

InitHint ==
    /\ \E failure \in SyntaxFailures \cup ReservedFailures \cup OtherFailures :
           /\ error = failure.message
           /\ expression = failure.expr
           /\ session_locals = failure.session
    /\ pc = "_print_error"
    /\ relaxed = FALSE
    /\ simplify_output = TRUE
    /\ normalized = <<>>
    /\ result = NoValue
    /\ stages = <<>>
    /\ calls = 0
    /\ stripped = <<>>
    /\ latexed = <<>>
    /\ shorthand = <<>>
    /\ staged = <<>>
    /\ previous = <<>>
    /\ match_name = <<>>
    /\ guarded_expr = <<>>
    /\ parsed_safe = NoValue
    /\ parsed_expr = NoValue
    /\ returned = NoValue
    /\ CliIdle

\* cli.py:241-246: the message, then the hint if there is one, then the
\* WolframAlpha hint
PrintError(hint) ==
    /\ pc = "_print_error"
    /\ printed' = [k |-> "error", message |-> error, hint |-> hint,
                   wolfram |-> expression # <<>> /\ should_print_wolfram_hint(error)]
    /\ pc' = "printed"
    /\ UNCHANGED <<core_vars, argv, line, prompts, exit_code, tutorial_state,
                   expression, relaxed, error, session_locals, solver_calls>>

PrintErrorWithHint ==
    \E hint \in { hint_for_error(error, expression, session_locals) } :
        hint # None /\ PrintError(hint)

PrintErrorAlone ==
    \E hint \in { hint_for_error(error, expression, session_locals) } :
        hint = None /\ PrintError(hint)

NextHint ==
    \/ PrintErrorWithHint
    \/ PrintErrorAlone

SpecHint == InitHint /\ [][NextHint]_vars

\* the text read from left to right, with a `*` in the place of every gap,
\* empty or of whitespace, between a digit or `)` and a letter or `(`
RECURSIVE C21_CorrectedFrom(_, _)
C21_CorrectedFrom(s, i) ==
    IF i > Len(s) THEN <<>>
    ELSE IF /\ At(s, i - 1) \in Digit \cup {")"}
            /\ At(s, SkipWs(s, i)) \in Letter \cup {"("}
    THEN <<"*", s[SkipWs(s, i)]>> \o C21_CorrectedFrom(s, SkipWs(s, i) + 1)
    ELSE <<s[i]>> \o C21_CorrectedFrom(s, i + 1)

C21_Corrected(s) == C21_CorrectedFrom(s, 1)

\* C21: for an "invalid syntax" failure on an input that holds the word `ode`,
\* the corrected input has a `*` at every place where a digit or `)` is
\* followed, directly or across whitespace, by a letter or `(`, and the hint
\* printed holds the corrected input whenever it differs from the input
C21_OdeMultiplicationHint ==
    (/\ pc = "printed"
     /\ printed.message = SyntaxMessage
     /\ OdeWordSearch(expression)) =>
        /\ _suggest_strict_ode_multiplication(expression) = C21_Corrected(expression)
        /\ C21_Corrected(expression) # expression =>
               /\ printed.hint # None
               /\ Contains(printed.hint.text, C21_Corrected(expression))

C21_Witness ==
    /\ pc = "printed"
    /\ printed.message = SyntaxMessage
    /\ expression = OdePrefix \o <<"2", " ", "y">>
    /\ Contains(printed.hint.text, OdePrefix \o <<"2", "*", "y">>)

\* the session name the claim lets the hint for `f` propose: the first key in
\* alphabetical order that starts with `f`, otherwise the closest key,
\* otherwise the fixed `ff`
C22_Proposal(S) ==
    IF \E k \in Keys(S) : StartsWith(k, <<"f">>)
    THEN HintReservedF(FirstSorted({ k \in Keys(S) : StartsWith(k, <<"f">>) }))
    ELSE IF get_close_matches(<<"f">>, Keys(S)) # <<>>
    THEN HintReservedF(get_close_matches(<<"f">>, Keys(S))[1])
    ELSE HintReservedFixed

\* C22: for the failure "cannot assign reserved name: N" the hint is the
\* f-specific text with its proposal when N is `f`, and the generic text when
\* N is any other reserved name
C22_ReservedNameHints ==
    \A id \in LOCALS_DICT :
        (pc = "printed" /\ printed.message = ReservedNameMessage(id)) =>
            printed.hint = IF id = <<"f">> THEN C22_Proposal(session_locals)
                           ELSE HintReservedGeneric

\* C23: with simplify_output unset, the value a successful call returns is
\* the parsed expression, to which no simplification has been applied
C23_NoSimplify ==
    (pc = "session_write" /\ ~simplify_output) =>
        result = parse_expr(guarded_expr, session_locals, relaxed, TRUE)

(***************************************************************************)
(* The linear-algebra alias: `linalg solve A=[[...]] b=[...]` and          *)
(* `linalg rref A=[[...]]`.  Its functions (_evaluate_linalg_alias,        *)
(* _parse_linalg_keyed_literals, _consume_bracket_literal) are those the   *)
(* tests of the command line call; where the order of two checks on one    *)
(* clause is not told, the key is checked before what follows it.  The     *)
(* values of the matrices, their shapes and the solution are the engine's. *)
(***************************************************************************)
ErrLinalgSubcommand == "linalg expects a subcommand"
ErrLinalgUnknownSubcommand == "unknown linalg subcommand"
ErrLinalgUnknownParameter == "unknown linalg parameter"
ErrLinalgDuplicateParameter == "duplicate linalg parameter"
ErrLinalgEquals == "linalg parameters must use '='"
ErrLinalgUnclosed == "unclosed bracket literal"
ErrLinalgBracket == "expected bracketed literal"
ErrLinalgMissingParameter == "missing linalg parameter"

LinalgPrefix == <<"l", "i", "n", "a", "l", "g", " ">>
SolveName == <<"s", "o", "l", "v", "e">>
RrefName == <<"r", "r", "e", "f">>

\* the keys of a subcommand, all of them required
LinalgKeys(subcommand) ==
    IF subcommand = SolveName THEN { <<"A">>, <<"b">> } ELSE { <<"A">> }

\* the number of `[` less the number of `]` in s[i..j]
BracketDepth(s, i, j) ==
    Cardinality({ k \in i..j : s[k] = "[" }) - Cardinality({ k \in i..j : s[k] = "]" })

\* the literal that starts at index i and ends where the depth is zero again
_consume_bracket_literal(s, i) ==
    IF At(s, i) # "[" THEN Error(ErrLinalgBracket)
    ELSE IF \A j \in i..Len(s) : BracketDepth(s, i, j) # 0
    THEN Error(ErrLinalgUnclosed)
    ELSE [k |-> "literal",
          text |-> Slice(s, i, 1 + Min({ j \in i..Len(s) : BracketDepth(s, i, j) = 0 })),
          e |-> 1 + Min({ j \in i..Len(s) : BracketDepth(s, i, j) = 0 })]

\* the clauses are separated by whitespace and commas
LinalgSeparators == Space \cup {","}

SkipSeparators(s, i) ==
    CHOOSE j \in i..(Len(s) + 1) :
        /\ \A k \in i..(j - 1) : s[k] \in LinalgSeparators
        /\ At(s, j) \notin LinalgSeparators

\* the index after the key that starts at index i
KeyEnd(s, i) ==
    CHOOSE j \in i..(Len(s) + 1) :
        /\ \A k \in i..(j - 1) : s[k] \in WordChar
        /\ At(s, j) \notin WordChar

ParsedKeys(parsed) == { parsed[n][1] : n \in 1..Len(parsed) }

\* a duplicate key is let through
Mut_CheckKey_no_duplicates(key, allowed_keys, parsed) ==
    IF key \notin allowed_keys THEN ErrLinalgUnknownParameter ELSE NoError

\* the checks on a key
CheckKey(key, allowed_keys, parsed) ==
    IF key \notin allowed_keys THEN ErrLinalgUnknownParameter
    ELSE IF key \in ParsedKeys(parsed) THEN ErrLinalgDuplicateParameter
    ELSE NoError

RECURSIVE ParseKeyedFrom(_, _, _, _)
RECURSIVE ParseKeyedClause(_, _, _, _, _)
\* the clause whose key ends in front of index j, key being its key
ParseKeyedClause(s, j, key, allowed_keys, parsed) ==
    IF CheckKey(key, allowed_keys, parsed) # NoError
    THEN Error(CheckKey(key, allowed_keys, parsed))
    ELSE IF At(s, SkipWs(s, j)) # "=" THEN Error(ErrLinalgEquals)
    ELSE IF _consume_bracket_literal(s, SkipWs(s, SkipWs(s, j) + 1)).k = "Error"
    THEN _consume_bracket_literal(s, SkipWs(s, SkipWs(s, j) + 1))
    ELSE ParseKeyedFrom(s, _consume_bracket_literal(s, SkipWs(s, SkipWs(s, j) + 1)).e,
                        allowed_keys,
                        Append(parsed, <<key,
                            _consume_bracket_literal(s, SkipWs(s, SkipWs(s, j) + 1)).text>>))

\* the clauses from index i on, parsed holding those in front of it
ParseKeyedFrom(s, i, allowed_keys, parsed) ==
    IF SkipSeparators(s, i) > Len(s) THEN [k |-> "parsed", pairs |-> parsed]
    ELSE ParseKeyedClause(s, KeyEnd(s, SkipSeparators(s, i)),
                          Slice(s, SkipSeparators(s, i), KeyEnd(s, SkipSeparators(s, i))),
                          allowed_keys, parsed)

\* the key -> literal pairs of the text, in the order of the text
_parse_linalg_keyed_literals(s, allowed_keys) == ParseKeyedFrom(s, 1, allowed_keys, <<>>)

\* the literal of a key
LiteralOf(parsed, key) == (CHOOSE n \in 1..Len(parsed) : parsed[n][1] = key)

MatrixCall(literal) == <<"M", "a", "t", "r", "i", "x", "(">> \o literal \o <<")">>

\* the texts given to evaluate, the coefficient matrix first
MatrixCalls(subcommand, parsed) ==
    IF subcommand = SolveName
    THEN << MatrixCall(parsed[LiteralOf(parsed, <<"A">>)][2]),
            MatrixCall(parsed[LiteralOf(parsed, <<"b">>)][2]) >>
    ELSE << MatrixCall(parsed[LiteralOf(parsed, <<"A">>)][2]) >>

\* the first word of the body and what follows it
LinalgSubcommand(s) == Slice(s, 1, RunNot0(s, 1, Space))
LinalgParameters(s) == SubSeq(s, RunNot0(s, 1, Space), Len(s))

\* what the alias does with the parameters of a subcommand
LinalgParsed(subcommand, parsed) ==
    IF parsed.k = "Error" THEN parsed
    ELSE IF LinalgKeys(subcommand) \ ParsedKeys(parsed.pairs) # {}
    THEN Error(ErrLinalgMissingParameter)
    ELSE [k |-> "linalg", subcommand |-> subcommand,
          calls |-> MatrixCalls(subcommand, parsed.pairs)]

\* _evaluate_linalg_alias(expr, ...) up to the calls of evaluate
_evaluate_linalg_alias(expr) ==
    IF Strip(SubSeq(expr, Len(LinalgPrefix) + 1, Len(expr))) = <<>>
    THEN Error(ErrLinalgSubcommand)
    ELSE IF LinalgSubcommand(Strip(SubSeq(expr, Len(LinalgPrefix) + 1, Len(expr))))
              \notin {SolveName, RrefName}
    THEN Error(ErrLinalgUnknownSubcommand)
    ELSE Only({ LinalgParsed(LinalgSubcommand(b), _parse_linalg_keyed_literals(
                    LinalgParameters(b), LinalgKeys(LinalgSubcommand(b)))) :
                b \in { Strip(SubSeq(expr, Len(LinalgPrefix) + 1, Len(expr))) } })

MaxLinalgClauses == 2

LinalgKeyNames == { <<"A">>, <<"b">>, <<"C">> }
LinalgJoins == { <<"=">>, <<" ">>, <<"=", " ">> }
LinalgLiterals == { <<"[", "[", "1", "]", "]">>, <<"[", "[", "1", "]">> }

LinalgClauses ==
    { key \o join \o literal :
        key \in LinalgKeyNames, join \in LinalgJoins, literal \in LinalgLiterals }

RECURSIVE JoinWith(_, _)
JoinWith(parts, sep) ==
    IF parts = <<>> THEN <<>>
    ELSE IF Len(parts) = 1 THEN parts[1]
    ELSE parts[1] \o sep \o JoinWith(Tail(parts), sep)

LinalgClauseLists == UNION { [1..n -> LinalgClauses] : n \in 0..MaxLinalgClauses }

LinalgLine(subcommand, clauses, sep) ==
    LinalgPrefix \o subcommand \o <<" ">> \o JoinWith(clauses, sep)

\* the lines typed: a subcommand and clauses, separated by spaces or commas;
\* pieces keeps the clauses the line is made of
InitLinalg ==
    /\ \E subcommand \in {SolveName, RrefName, <<"w", "a", "t">>, <<>>} :
       \E clauses \in LinalgClauseLists : \E sep \in { <<" ">>, <<",", " ">> } :
           /\ expression = LinalgLine(subcommand, clauses, sep)
           /\ pieces = clauses
    /\ pc = "linalg"
    /\ relaxed = TRUE
    /\ simplify_output = TRUE
    /\ session_locals = Dict(EmptyItems)
    /\ normalized = <<>>
    /\ error = NoError
    /\ result = NoValue
    /\ stages = <<>>
    /\ calls = 0
    /\ stripped = <<>>
    /\ latexed = <<>>
    /\ shorthand = <<>>
    /\ staged = <<>>
    /\ previous = <<>>
    /\ match_name = <<>>
    /\ guarded_expr = <<>>
    /\ parsed_safe = NoValue
    /\ parsed_expr = NoValue
    /\ returned = NoValue
    /\ body = <<>>
    /\ AliasIdle
    /\ ReplIdle

linalg_frame ==
    <<repl_vars, expression, relaxed, simplify_output, session_locals,
      normalized, result, stages, calls, normalizer_vars, previous,
      evaluate_vars, returned, pieces, eq_value, dependent_fn, ics,
      solver_calls>>

\* the alias raises before any matrix is evaluated
LinalgRaises(outcome) ==
    /\ outcome.k = "Error"
    /\ error' = outcome.err
    /\ pc' = "raised"
    /\ body' = Strip(SubSeq(expression, Len(LinalgPrefix) + 1, Len(expression)))
    /\ UNCHANGED <<linalg_frame, fn_calls>>

LinalgSubcommandRaises ==
    /\ pc = "linalg"
    /\ \E outcome \in { _evaluate_linalg_alias(expression) } :
           /\ LinalgRaises(outcome)
           /\ outcome.err \in {ErrLinalgSubcommand, ErrLinalgUnknownSubcommand}

LinalgParametersRaise ==
    /\ pc = "linalg"
    /\ \E outcome \in { _evaluate_linalg_alias(expression) } :
           /\ LinalgRaises(outcome)
           /\ outcome.err \notin {ErrLinalgSubcommand, ErrLinalgUnknownSubcommand}

\* every key is there: the matrices are evaluated
LinalgEvaluates ==
    /\ pc = "linalg"
    /\ \E outcome \in { _evaluate_linalg_alias(expression) } :
           /\ outcome.k # "Error"
           /\ fn_calls' = outcome.calls
           /\ pc' = "evaluated"
           /\ body' = Strip(SubSeq(expression, Len(LinalgPrefix) + 1, Len(expression)))
           /\ UNCHANGED <<linalg_frame, error>>

NextLinalg ==
    \/ LinalgSubcommandRaises
    \/ LinalgParametersRaise
    \/ LinalgEvaluates

SpecLinalg == InitLinalg /\ [][NextLinalg]_vars

\* the key set the claim gives a subcommand
C24_Accepted(subcommand) ==
    IF subcommand = SolveName THEN { <<"A">>, <<"b">> } ELSE { <<"A">> }

\* a clause as typed: its key is its first character
C24_Key(clause) == <<clause[1]>>

\* the errors the claim gives the n-th clause
C24_Defects(clauses, n, accepted) ==
    (IF C24_Key(clauses[n]) \notin accepted THEN {ErrLinalgUnknownParameter} ELSE {})
      \cup (IF \E o \in 1..(n - 1) : C24_Key(clauses[o]) = C24_Key(clauses[n])
            THEN {ErrLinalgDuplicateParameter} ELSE {})
      \cup (IF clauses[n][2] # "=" THEN {ErrLinalgEquals} ELSE {})
      \cup (IF BracketDepth(clauses[n], 1, Len(clauses[n])) # 0
            THEN {ErrLinalgUnclosed} ELSE {})

\* the first clause that has a defect, 0 when none has
C24_FirstDefective(clauses, accepted) ==
    IF \A n \in 1..Len(clauses) : C24_Defects(clauses, n, accepted) = {} THEN 0
    ELSE Min({ n \in 1..Len(clauses) : C24_Defects(clauses, n, accepted) # {} })

\* the required keys that no clause gives
C24_Missing(clauses, accepted) ==
    { key \in accepted : \A n \in 1..Len(clauses) : C24_Key(clauses[n]) # key }

C24_Scanned == pc \in {"raised", "evaluated"} /\ LinalgSubcommand(body) \in {SolveName, RrefName}

\* C24: for `linalg solve` the keys are A and b and for `linalg rref` the key
\* is A; the scan of the clauses fails on the first clause with a defect, with
\* the unknown-parameter, duplicate-parameter, missing-equals or
\* unclosed-bracket error that the clause calls for, and with the
\* missing-parameter error when no clause has a defect and a required key is
\* absent; the matrices are evaluated only when every required key occurs
\* exactly once
C24_ParameterValidation ==
    C24_Scanned =>
        \E accepted \in { C24_Accepted(LinalgSubcommand(body)) } :
           /\ C24_FirstDefective(pieces, accepted) # 0 =>
                  /\ pc = "raised"
                  /\ error \in C24_Defects(pieces, C24_FirstDefective(pieces, accepted),
                                           accepted)
           /\ (C24_FirstDefective(pieces, accepted) = 0
                 /\ C24_Missing(pieces, accepted) # {}) =>
                  (pc = "raised" /\ error = ErrLinalgMissingParameter)
           /\ pc = "evaluated" =>
                  /\ \A key \in accepted :
                         Cardinality({ n \in 1..Len(pieces) : C24_Key(pieces[n]) = key }) = 1
                  /\ Len(fn_calls) = Cardinality(accepted)
           /\ pc = "raised" => fn_calls = <<>>

C24_Witness ==
    /\ pc = "raised"
    /\ error = ErrLinalgDuplicateParameter
    /\ LinalgSubcommand(body) = SolveName
    /\ Len(pieces) = 2

(***************************************************************************)
(* _strip_outer_wrappers (src/src/calc/core.py:211-226), one pass of its   *)
(* loop at a time: stripped is out, previous is before                     *)
(***************************************************************************)
MaxWrapperLen == 4

WrapperAlphabet == {"'", "\"", "$", BS, "(", ")", "[", "]", " ", "x"}

WrapperInputs == UNION { [1..n -> WrapperAlphabet] : n \in 0..MaxWrapperLen }

InitStrip ==
    /\ CliIdle
    /\ expression \in WrapperInputs
    /\ relaxed = FALSE
    /\ simplify_output = TRUE
    /\ pc = "_strip_outer_wrappers"
    /\ normalized = <<>>
    /\ error = NoError
    /\ result = NoValue
    /\ session_locals = None
    /\ stages = <<>>
    /\ calls = 0
    /\ stripped = <<>>
    /\ latexed = <<>>
    /\ shorthand = <<>>
    /\ staged = <<>>
    /\ previous = <<>>
    /\ match_name = <<>>
    /\ guarded_expr = <<>>
    /\ parsed_safe = NoValue
    /\ parsed_expr = NoValue
    /\ returned = NoValue

strip_frame ==
    <<cli_vars, expression, relaxed, simplify_output, normalized, error,
      result, session_locals, stages, calls, latexed, shorthand, staged,
      evaluate_vars>>

\* line 212: out = text.strip()
StripEnter ==
    /\ pc = "_strip_outer_wrappers"
    /\ stripped' = Strip(expression)
    /\ pc' = "while"
    /\ UNCHANGED <<strip_frame, previous, returned>>

\* lines 214-224 change out, and line 225 finds it changed
StripPass ==
    /\ pc = "while"
    /\ StripOneWrapper(stripped) # stripped
    /\ previous' = stripped
    /\ stripped' = StripOneWrapper(stripped)
    /\ UNCHANGED <<strip_frame, pc, returned>>

\* lines 225-226: out == before, return out
StripReturn ==
    /\ pc = "while"
    /\ StripOneWrapper(stripped) = stripped
    /\ previous' = stripped
    /\ returned' = [k |-> "str", text |-> stripped]
    /\ pc' = "returned"
    /\ UNCHANGED <<strip_frame, stripped>>

NextStrip ==
    \/ StripEnter
    \/ StripPass
    \/ StripReturn

SpecStrip == InitStrip /\ [][NextStrip]_vars

\* a call that has started goes on to its next statement
SpecStripFair == SpecStrip /\ WF_vars(NextStrip)

\* a wrapper rule the claim names applies to the text
C25_Wrapped(s) ==
    \/ Len(s) >= 2 /\ s[1] = s[Len(s)] /\ s[1] \in {"'", "\""}
    \/ Len(s) >= 4 /\ SubSeq(s, 1, 2) = <<"$", "$">>
          /\ SubSeq(s, Len(s) - 1, Len(s)) = <<"$", "$">>
    \/ Len(s) >= 2 /\ s[1] = "$" /\ s[Len(s)] = "$"
    \/ Len(s) >= 2 /\ SubSeq(s, 1, 2) = <<BS, "(">>
          /\ SubSeq(s, Len(s) - 1, Len(s)) = <<BS, ")">>
    \/ Len(s) >= 2 /\ SubSeq(s, 1, 2) = <<BS, "[">>
          /\ SubSeq(s, Len(s) - 1, Len(s)) = <<BS, "]">>

C25_Trimmed(s) == s = <<>> \/ (s[1] \notin Space /\ s[Len(s)] \notin Space)

\* a pass that applies a rule makes the text strictly shorter, and the text
\* returned is trimmed and no rule applies to it
C25_Pass ==
    /\ (pc = "while" /\ pc' = "while") => Len(stripped') < Len(stripped)
    /\ pc' = "returned" =>
           /\ C25_Trimmed(returned'.text)
           /\ ~C25_Wrapped(returned'.text)

\* C25: the stripping of outer wrappers ends on every input, every pass of
\* its loop that applies a rule makes the text strictly shorter, and the text
\* it returns is trimmed and a fixpoint: no wrapper rule applies to it
C25_StripTerminates == [][C25_Pass]_vars /\ <>(pc = "returned")

C25_Witness ==
    /\ pc = "returned"
    /\ expression = <<"'", "$", "$", "'">>
    /\ previous = <<>>
    /\ returned.text = <<>>

\* the exponent of the power classified, and what the helper returns for it
C26_Value == _integer_value_capped(parsed_safe.args[2], MAX_INTEGER_POWER_EXP)

\* an integer literal or a tower of integer powers
RECURSIVE C26_IsIntegerTower(_)
C26_IsIntegerTower(u) ==
    \/ u.k = "Integer"
    \/ u.k = "Pow" /\ C26_IsIntegerTower(u.args[1]) /\ C26_IsIntegerTower(u.args[2])

\* C26: for an integer literal or a tower of integer powers the capped helper
\* returns no value or an integer v with |v| <= cap + 1; |v| > cap holds
\* exactly when the absolute value of the true value exceeds the cap; and a
\* power with a negative exponent yields no value
C26_CappedValues ==
    (pc = "classified" /\ C26_IsIntegerTower(parsed_safe.args[2])) =>
        /\ C26_Value # None => Abs(C26_Value.v) <= MAX_INTEGER_POWER_EXP + 1
        /\ (C26_Value # None /\ C7_IsTower(parsed_safe.args[2])) =>
               (Abs(C26_Value.v) > MAX_INTEGER_POWER_EXP
                   <=> C7_Magnitude(parsed_safe.args[2]) > MAX_INTEGER_POWER_EXP)
        /\ (/\ parsed_safe.args[2].k = "Pow"
            /\ C7_IsTower(parsed_safe.args[2].args[2])
            /\ C7_Negative(parsed_safe.args[2].args[2])) => C26_Value = None

\* the independent variables the equations are written in
C27_Variables == { <<"x">>, <<"t">> }

\* fn(v), the function application of a dependent to the variable v
C27_Applied(fn, v) == fn \o <<"(">> \o v \o <<")">>

\* the variables v such that s holds the derivative of the dependent named
\* dep, with the function fn, with respect to v: d(fn(v), v) or d(dep, v)
C27_DerivativeVariables(s, dep, fn) ==
    { v \in C27_Variables :
        \/ Contains(s, <<"d", "(">> \o C27_Applied(fn, v) \o <<",", " ">> \o v \o <<")">>)
        \/ Contains(s, <<"d", "(">> \o dep \o <<",", " ">> \o v \o <<")">>) }

\* s holds a bare occurrence of dep outside the first argument of d( )
C27_HoldsBare(s, dep) ==
    \E i \in 1..Len(s) :
        /\ BareDependentAt(s, i, dep)
        /\ ~PrefixAt(s, i - 2, <<"d", "(">>)

\* the text before the backfill holds derivatives of the dependent dep in
\* exactly one variable, and a bare occurrence of dep
C27_Rewrites(s, dep, fn) ==
    /\ Search(s, Matches(s, EQUALITY_PATTERN))
    /\ Cardinality(C27_DerivativeVariables(s, dep, fn)) = 1
    /\ C27_HoldsBare(s, dep)

\* s with its bare occurrences of dep written as the application of fn to the
\* one variable its derivatives of dep are taken in
C27_Backfilled(s, dep, fn, star) ==
    C11_RewriteFrom(s, 1, dep,
                    C27_Applied(fn, Only(C27_DerivativeVariables(s, dep, fn))),
                    star)

\* C27: when normalize_expression rewrites the bare occurrences of a
\* dependent (y or f) in an equation that holds a derivative of that
\* dependent with respect to one variable v, every rewritten occurrence is
\* the application of the dependent's function to v, so the text that leaves
\* the rewrite applies the function to no second variable.
C27_ConsistentVariable ==
    /\ (pc = "normalized" /\ stages = <<"equality">>
          /\ C27_Rewrites(C11_BeforeBackfill(shorthand), <<"y">>, <<"y", "f">>)
          /\ ~Search(staged, Matches(staged, DerivativeOfFPattern))) =>
           staged = C27_Backfilled(C11_BeforeBackfill(shorthand), <<"y">>, <<"y", "f">>,
                                   relaxed)
    /\ (pc = "normalized" /\ stages = <<"equality">>
          /\ C27_Rewrites(C11_BeforeBackfill(shorthand), <<"f">>, <<"f">>)
          /\ ~Search(staged, Matches(staged, DerivativeOfYPattern))) =>
           staged = C27_Backfilled(C11_BeforeBackfill(shorthand), <<"f">>, <<"f">>,
                                   relaxed)

\* the session mapping evaluate_ode_alias was called with: the one its first
\* call of evaluate_fn was handed
C28_SessionAtCall == fn_calls[1].session_locals

\* C28: when evaluate_ode_alias raises, at whichever step, the session
\* mapping holds the keys and values it held when the alias was called, `ans`
\* included.
C28_FailureKeepsSession ==
    (pc = "raised" /\ fn_calls # <<>>) => session_locals = C28_SessionAtCall

\* the keys a step of evaluate may add to the session: `ans`, and the target
\* of the assignment of the call when it is no reserved name
C29_Writable ==
    {ANS} \cup (IF match_name # <<>> /\ match_name \notin LOCALS_DICT
                THEN {match_name} ELSE {})

\* no step adds a key other than those
C29_Step == Keys(session_locals') \subseteq (Keys(session_locals) \cup C29_Writable)

\* C29: from an empty session on, after any sequence of calls of evaluate,
\* successful or failing, no key of the session is a name of LOCALS_DICT: a
\* step writes only `ans` and an assignment target that is no reserved name.
C29_NoReservedKey ==
    /\ [](Keys(session_locals) \cap LOCALS_DICT = {})
    /\ [][C29_Step]_vars

\* the third call, `sin = 2`, was refused after `a = 2` was stored and
\* `2 +` failed: the session holds a and ans
C29_Witness ==
    /\ pc = "raised"
    /\ calls = MaxCalls
    /\ expression = <<"s", "i", "n", " ", "=", " ", "2">>
    /\ error = ErrReserved
    /\ Keys(session_locals) = {<<"a">>, ANS}

\* the words of a line that is parsed as inline options
C30_Words(typed) ==
    IF StartsWith(Strip(typed), CLI_NAME \o <<" ">>)
    THEN shlex_split(SubSeq(Strip(typed), 5, Len(Strip(typed))))
    ELSE shlex_split(Strip(typed))

\* the line names the option: it is one of the words in front of the
\* expression and of `--`
C30_Names(typed, option) ==
    \E i \in 1..Len(C30_Words(typed)) :
        /\ C30_Words(typed)[i] = option
        /\ \A j \in 1..(i - 1) : /\ StartsWith(C30_Words(typed)[j], <<"-">>)
                                 /\ C30_Words(typed)[j] # <<"-", "-">>

\* the step reads a line that is parsed as inline options
C30_ReadsOptions ==
    /\ pc = "prompt"
    /\ prompts' = prompts + 1
    /\ line' # <<>>
    /\ ~_tutorial_command(line', tutorial_state).handled
    /\ _handle_repl_command(line') = "no"
    /\ _try_parse_repl_inline_options(line') # None

\* a line that does not name --strict leaves the mode of the session alone
C30_KeepsUnnamed ==
    (C30_ReadsOptions /\ ~C30_Names(line', <<"-", "-", "s", "t", "r", "i", "c", "t">>)) =>
        relaxed' = relaxed

\* a line whose options fail to parse leaves the mode of the session alone
C30_KeepsOnFailure ==
    (C30_ReadsOptions /\ _try_parse_repl_inline_options(line').k = "Error") =>
        relaxed' = relaxed

\* C30: a REPL line that is parsed as inline options (it starts with `-` or
\* with `phil `) changes only the options of the session that it names: an
\* option it does not name keeps the value the session had before the line,
\* and a line whose option parsing fails changes no option.
C30_InlineOptionsFrame == [][C30_KeepsUnnamed /\ C30_KeepsOnFailure]_vars

====
